---- MODULE Spec2Model ----
(***************************************************************************)
(* Model of the query translator (src/query_translator): sql_to_mongo and  *)
(* MongoToSql.convert, the two text-to-text entry points, and the helpers  *)
(* they call.                                                              *)
(*                                                                         *)
(* Text.  A Python str is modelled as a sequence of symbols.  A symbol is  *)
(* either one character (punctuation, a blank, a digit, a letter of a      *)
(* string literal) or one whole word of the query (a keyword, a method     *)
(* name, an identifier), which the code never takes apart.  The string     *)
(* operations of the source (strip, split, find, replace, the regular      *)
(* expressions) are modelled on such sequences, symbol by symbol.          *)
(*                                                                         *)
(* Values.  A Python value is a record tagged by t: int, str, null, bool,  *)
(* list, dict.  A dict is the sequence of its items in insertion order.    *)
(***************************************************************************)
EXTENDS Integers, Sequences, FiniteSets, TLC

VARIABLES req, lang, query, pc, hops, ir, out, scan

vars == <<req, lang, query, pc, hops, ir, out, scan>>

----------------------------------------------------------------------------
(* Python str operations on symbol sequences *)

Min(S) == CHOOSE x \in S : \A y \in S : x <= y

Ws == {" "}

\* the concatenation of a sequence of texts (by halves: TLC's stack is short)
RECURSIVE Cat(_)
Cat(parts) ==
  IF Len(parts) = 0 THEN <<>>
  ELSE IF Len(parts) = 1 THEN parts[1]
  ELSE LET h == Len(parts) \div 2
       IN Cat(SubSeq(parts, 1, h)) \o Cat(SubSeq(parts, h + 1, Len(parts)))

\* sep.join(parts)
Join(parts, sep) == Cat([i \in 1..Len(parts) |-> IF i = 1 THEN parts[i] ELSE sep \o parts[i]])

StartsAt(t, pat, i) ==
  /\ i >= 1
  /\ i + Len(pat) - 1 <= Len(t)
  /\ \A j \in 1..Len(pat) : t[i + j - 1] = pat[j]

\* str.find from position `from` on (1-based; 0 when absent)
Find(t, pat, from) ==
  LET S == {i \in from..(Len(t) - Len(pat) + 1) : StartsAt(t, pat, i)}
  IN IF S = {} THEN 0 ELSE Min(S)

Contains(t, pat) == Find(t, pat, 1) # 0

RECURSIVE LStrip(_, _)
LStrip(t, cs) == IF Len(t) > 0 /\ Head(t) \in cs THEN LStrip(Tail(t), cs) ELSE t

RECURSIVE RStrip(_, _)
RStrip(t, cs) ==
  IF Len(t) > 0 /\ t[Len(t)] \in cs THEN RStrip(SubSeq(t, 1, Len(t) - 1), cs) ELSE t

Strip(t, cs) == LStrip(RStrip(t, cs), cs)

\* str.split(sep)
RECURSIVE Split(_, _)
Split(t, sep) ==
  LET i == Find(t, sep, 1)
  IN IF i = 0 THEN <<t>>
     ELSE <<SubSeq(t, 1, i - 1)>> \o Split(SubSeq(t, i + Len(sep), Len(t)), sep)

\* str.split(None, n); n < 0 for no limit
RECURSIVE SplitWs(_, _)
SplitWs(t, n) ==
  LET s == LStrip(t, Ws)
  IN IF Len(s) = 0 THEN <<>>
     ELSE IF n = 0 THEN <<s>>
     ELSE LET S == {i \in 1..Len(s) : s[i] \in Ws}
              e == IF S = {} THEN Len(s) + 1 ELSE Min(S)
          IN <<SubSeq(s, 1, e - 1)>> \o SplitWs(SubSeq(s, e, Len(s)), n - 1)

\* str.replace(pat, rep)
RECURSIVE Replace(_, _, _)
Replace(t, pat, rep) ==
  LET i == Find(t, pat, 1)
  IN IF i = 0 THEN t
     ELSE SubSeq(t, 1, i - 1) \o rep \o Replace(SubSeq(t, i + Len(pat), Len(t)), pat, rep)

RECURSIVE SkipWs(_, _)
SkipWs(t, i) == IF i <= Len(t) /\ t[i] \in Ws THEN SkipWs(t, i + 1) ELSE i

\* the characters that are not \w
Punct == {"{", "}", "[", "]", "(", ")", ",", ":", ".", ";", "'", "\"", "$", " ",
          "*", "=", ">", "<", "!", "%", "^", "-"}

IsWord(s) == s \notin Punct

----------------------------------------------------------------------------
(* Numbers: str(int) and int(str) *)

DigitOf == <<"0", "1", "2", "3", "4", "5", "6", "7", "8", "9">>

IsDigit(s) == \E d \in 1..10 : DigitOf[d] = s

DigitVal(s) == (CHOOSE d \in 1..10 : DigitOf[d] = s) - 1

\* The LIMIT the renderer writes when only skip is set.  TLC's integers are
\* 32-bit, so the value 2^64 - 1 of the source is stood for by the largest
\* integer of the model, and its numeral by one symbol.
BigintUnsignedMax == 2147483647
BigintNumeral == <<"18446744073709551615">>

RECURSIVE Digits(_)
Digits(n) ==
  IF n < 10 THEN <<DigitOf[n + 1]>> ELSE Digits(n \div 10) \o <<DigitOf[(n % 10) + 1]>>

\* str(n) of an int
Str(n) ==
  IF n = BigintUnsignedMax THEN BigintNumeral
  ELSE IF n < 0 THEN <<"-">> \o Digits(0 - n)
  ELSE Digits(n)

AllDigits(t) == Len(t) > 0 /\ \A i \in 1..Len(t) : IsDigit(t[i])

RECURSIVE DigitsVal(_)
DigitsVal(t) ==
  IF Len(t) = 1 THEN DigitVal(t[1])
  ELSE 10 * DigitsVal(SubSeq(t, 1, Len(t) - 1)) + DigitVal(t[Len(t)])

\* whether int(t) succeeds: blanks around, an optional sign, digits
IsInt(t) ==
  LET s == Strip(t, Ws)
  IN \/ s = BigintNumeral
     \/ AllDigits(s)
     \/ Len(s) > 1 /\ s[1] \in {"-"} /\ AllDigits(Tail(s))

\* int(t)
PyInt(t) ==
  LET s == Strip(t, Ws)
  IN IF s = BigintNumeral THEN BigintUnsignedMax
     ELSE IF s[1] = "-" THEN 0 - DigitsVal(Tail(s))
     ELSE DigitsVal(s)

----------------------------------------------------------------------------
(* Python values *)

VInt(n) == [t |-> "int", v |-> n]
VStr(s) == [t |-> "str", v |-> s]
VBool(b) == [t |-> "bool", v |-> b]
VFloat(s) == [t |-> "float", v |-> s]
VNull == [t |-> "null"]
VList(xs) == [t |-> "list", v |-> xs]
VDict(items) == [t |-> "dict", v |-> items]
Item(k, v) == [k |-> k, v |-> v]

IsDict(x) == x.t = "dict"
IsList(x) == x.t = "list"
\* isinstance(x, (int, float)): bool is a subclass of int
IsNumber(x) == x.t \in {"int", "bool", "float"}

\* bool(x)
Truthy(x) ==
  CASE x.t = "null" -> FALSE
    [] x.t = "int" -> x.v # 0
    [] x.t = "bool" -> x.v
    [] x.t = "float" -> \E i \in 1..Len(x.v) : x.v[i] \in {"1", "2", "3", "4", "5", "6", "7", "8", "9"}
    [] OTHER -> Len(x.v) > 0

Keys(items) == [i \in 1..Len(items) |-> items[i].k]
HasKey(items, k) == \E i \in 1..Len(items) : items[i].k = k
Get(items, k) == items[CHOOSE i \in 1..Len(items) : items[i].k = k].v

\* d[k] = v: an existing key keeps its place
Put(items, k, v) ==
  IF HasKey(items, k)
  THEN [i \in 1..Len(items) |-> IF items[i].k = k THEN Item(k, v) ELSE items[i]]
  ELSE Append(items, Item(k, v))

----------------------------------------------------------------------------
(* json.loads and ast.literal_eval, on the texts the translator hands them *)

Fail == [ok |-> FALSE, v |-> VNull, i |-> 0]
Ok(v, i) == [ok |-> TRUE, v |-> v, i |-> i]

\* a string literal opening at i: up to the next same quote
ReadString(t, i) ==
  LET S == {j \in (i + 1)..Len(t) : t[j] = t[i]}
  IN IF S = {} THEN Fail ELSE Ok(VStr(SubSeq(t, i + 1, Min(S) - 1)), Min(S) + 1)

RECURSIVE DigitsEnd(_, _)
DigitsEnd(t, i) == IF i <= Len(t) /\ IsDigit(t[i]) THEN DigitsEnd(t, i + 1) ELSE i

ReadNumber(t, i) ==
  LET neg == t[i] = "-"
      b == IF neg THEN i + 1 ELSE i
      e == DigitsEnd(t, b)
  IN IF e = b \/ (e > b + 1 /\ t[b] = "0") THEN Fail
     ELSE Ok(VInt(IF neg THEN 0 - DigitsVal(SubSeq(t, b, e - 1))
                  ELSE DigitsVal(SubSeq(t, b, e - 1))), e)

\* br"..." is a bytes literal of Python: the key it gives, as str() prints it
ReadBytes(t, i) ==
  LET Bytes(r) == IF r.ok THEN Ok(VStr(<<"b", "'">> \o r.v.v \o <<"'">>), r.i) ELSE Fail
  IN Bytes(ReadString(t, i))

\* where the key's string literal opens: at i, or behind a bytes prefix
IsBytes(t, i, py) == py /\ t[i] = "br" /\ i < Len(t) /\ t[i + 1] \in {"\"", "'"}

RECURSIVE ReadValue(_, _, _), ReadMembers(_, _, _, _), ReadElements(_, _, _, _)

\* py: the Python literal grammar (either quote, True/False/None, a trailing
\* comma) instead of JSON's
ReadValue(t, i0, py) ==
  LET i == SkipWs(t, i0)
  IN IF i > Len(t) THEN Fail
     ELSE IF t[i] = "{" THEN
       (LET j == SkipWs(t, i + 1)
        IN IF j <= Len(t) /\ t[j] = "}" THEN Ok(VDict(<<>>), j + 1)
           ELSE ReadMembers(t, i + 1, <<>>, py))
     ELSE IF t[i] = "[" THEN
       (LET j == SkipWs(t, i + 1)
        IN IF j <= Len(t) /\ t[j] = "]" THEN Ok(VList(<<>>), j + 1)
           ELSE ReadElements(t, i + 1, <<>>, py))
     ELSE IF t[i] = "\"" \/ (py /\ t[i] = "'") THEN ReadString(t, i)
     ELSE IF IsDigit(t[i]) \/ t[i] = "-" THEN ReadNumber(t, i)
     ELSE IF t[i] = (IF py THEN "True" ELSE "true") THEN Ok(VBool(TRUE), i + 1)
     ELSE IF t[i] = (IF py THEN "False" ELSE "false") THEN Ok(VBool(FALSE), i + 1)
     ELSE IF t[i] = (IF py THEN "None" ELSE "null") THEN Ok(VNull, i + 1)
     ELSE Fail

ReadMembers(t, i0, acc, py) ==
  LET i == SkipWs(t, i0)
      Member(k, val, n) ==
        IF ~val.ok \/ n > Len(t) THEN Fail
        ELSE IF t[n] = "," THEN ReadMembers(t, n + 1, Put(acc, k.v.v, val.v), py)
        ELSE IF t[n] = "}" THEN Ok(VDict(Put(acc, k.v.v, val.v)), n + 1)
        ELSE Fail
      Value(k, val) == Member(k, val, SkipWs(t, val.i))
      Key(k, c) ==
        IF ~k.ok \/ c > Len(t) THEN Fail
        ELSE IF t[c] # ":" THEN Fail
        ELSE Value(k, ReadValue(t, c + 1, py))
      Name(k) == Key(k, SkipWs(t, k.i))
  IN IF i > Len(t) THEN Fail
     ELSE IF py /\ t[i] = "}" /\ Len(acc) > 0 THEN Ok(VDict(acc), i + 1)
     ELSE IF ~(t[i] = "\"" \/ (py /\ t[i] = "'") \/ IsBytes(t, i, py)) THEN Fail
     ELSE Name(IF IsBytes(t, i, py) THEN ReadBytes(t, i + 1) ELSE ReadString(t, i))

ReadElements(t, i0, acc, py) ==
  LET i == SkipWs(t, i0)
      Element(val, n) ==
        IF ~val.ok \/ n > Len(t) THEN Fail
        ELSE IF t[n] = "," THEN ReadElements(t, n + 1, Append(acc, val.v), py)
        ELSE IF t[n] = "]" THEN Ok(VList(Append(acc, val.v)), n + 1)
        ELSE Fail
      Value(val) == Element(val, SkipWs(t, val.i))
  IN IF i > Len(t) THEN Fail
     ELSE IF py /\ t[i] = "]" /\ Len(acc) > 0 THEN Ok(VList(acc), i + 1)
     ELSE Value(ReadValue(t, i, py))

\* the whole text is one value
Loads(t, py) ==
  LET Whole(r) == IF r.ok /\ SkipWs(t, r.i) > Len(t) THEN r ELSE Fail
  IN Whole(ReadValue(t, 1, py))

----------------------------------------------------------------------------
(* Results of a translation call *)

Ret(text) == [ok |-> TRUE, err |-> "", text |-> text]
Err(kind) == [ok |-> FALSE, err |-> kind, text |-> <<>>]

\* a key a dict does not hold
Absent == [t |-> "absent"]

----------------------------------------------------------------------------
(* MongoToSql: reading the object literals *)

\* The words of the model that end in an operator name, as <<word, operator,
\* what precedes it>>: re.sub finds the operator name at the end of the word.
WordTails == {<<"nin", "in", "n">>, <<"margin", "in", "marg">>, <<"phone", "ne", "pho">>,
              <<"color", "or", "col">>, <<"brand", "and", "br">>, <<"senior", "or", "seni">>}

EndsWithOp(w, op) == w = op \/ \E e \in WordTails : e[1] = w /\ e[2] = op

BeforeOp(w, op) ==
  IF w = op THEN <<>> ELSE <<(CHOOSE e \in WordTails : e[1] = w /\ e[2] = op)[3]>>

\* re.sub(r'(\s*)op(\s*):', r'\1"$op"\2:', text)
PrefixOperator(t, op) ==
  Cat([i \in 1..Len(t) |->
        IF EndsWithOp(t[i], op) /\ SkipWs(t, i + 1) <= Len(t) /\ t[SkipWs(t, i + 1)] = ":"
        THEN BeforeOp(t[i], op) \o <<"\"", "$", op, "\"">>
        ELSE <<t[i]>>])

BareOperators == <<"gt", "gte", "lt", "lte", "eq", "ne", "in", "nin", "or", "and">>

RECURSIVE PrefixOperators(_, _)
PrefixOperators(t, k) ==
  IF k > Len(BareOperators) THEN t
  ELSE LET u == PrefixOperator(t, BareOperators[k])
       IN IF Len(u) >= 0 THEN PrefixOperators(u, k + 1) ELSE u

RECURSIVE WordRunEnd(_, _)
\* the last symbol of the run of \w symbols that holds position i
WordRunEnd(t, i) == IF i < Len(t) /\ IsWord(t[i + 1]) THEN WordRunEnd(t, i + 1) ELSE i

RECURSIVE WordRunStart(_, _)
WordRunStart(t, i) == IF i > 1 /\ IsWord(t[i - 1]) THEN WordRunStart(t, i - 1) ELSE i

\* re.sub(r'(?<!")(\w+)(?=\s*:)', quote_keys, text): the colon is looked at, not
\* consumed, and quote_keys writes one more.  Behind a double quote the match
\* starts at the second character of the run; a run that is one word of the
\* model is then left alone.
QuoteKeys(t) ==
  Cat([i \in 1..Len(t) |->
        IF ~IsWord(t[i]) THEN <<t[i]>>
        ELSE LET b == WordRunStart(t, i)
                 e == WordRunEnd(t, i)
                 c == SkipWs(t, e + 1)
                 key == c <= Len(t) /\ t[c] = ":"
                 behind == b > 1 /\ t[b - 1] = "\""
                 from == IF behind THEN b + 1 ELSE b
             IN IF key /\ from <= e
                THEN (IF i = from THEN <<"\"">> ELSE <<>>) \o <<t[i]>>
                     \o (IF i = e THEN <<"\"", ":">> ELSE <<>>)
                ELSE <<t[i]>>])

DollarOperators == <<"gt", "gte", "lt", "lte", "eq", "ne", "in", "nin", "regex", "exists",
                     "or", "and">>

\* text.replace('$op:', '"$op":') for each operator
RECURSIVE QuoteDollarOperators(_, _)
QuoteDollarOperators(t, k) ==
  IF k > Len(DollarOperators) THEN t
  ELSE LET u == Replace(t, <<"$", DollarOperators[k], ":">>, <<"\"", "$", DollarOperators[k], "\"", ":">>)
       IN IF Len(u) >= 0 THEN QuoteDollarOperators(u, k + 1) ELSE u

NormalizeKeys(t) == QuoteDollarOperators(QuoteKeys(PrefixOperators(t, 1)), 1)

\* the fallback's replace('true', 'True').replace('false', 'False').replace('null', 'None')
PyKeywords(t) ==
  Replace(Replace(Replace(t, <<"true">>, <<"True">>), <<"false">>, <<"False">>),
          <<"null">>, <<"None">>)

\* _parse_mongo_json: [ok, v]; not ok is the ValueError it raises
ParseMongoJson(text) ==
  LET s == Strip(text, Ws)
      Python(py) == [ok |-> py.ok, v |-> py.v]
      Json(n, js) == IF js.ok THEN [ok |-> TRUE, v |-> js.v] ELSE Python(Loads(PyKeywords(n), TRUE))
      Normalized(n) == Json(n, Loads(n, FALSE))
  IN IF Len(s) = 0 \/ s = <<"{", "}">> THEN [ok |-> TRUE, v |-> VDict(<<>>)]
     ELSE Normalized(NormalizeKeys(s))

SafeEval(text) == ParseMongoJson(text)

\* bracket_count of _split_respecting_brackets once the character at i is read
BracketCount(t, i) ==
  Cardinality({j \in 1..i : t[j] \in {"{", "[", "("}})
    - Cardinality({j \in 1..i : t[j] \in {"}", "]", ")"}})

RECURSIVE Pieces(_, _, _)
\* the pieces of t between the cut positions, from position `from` on
Pieces(t, cuts, from) ==
  LET S == {c \in cuts : c >= from}
  IN IF S = {} THEN <<SubSeq(t, from, Len(t))>>
     ELSE <<SubSeq(t, from, Min(S) - 1)>> \o Pieces(t, cuts, Min(S) + 1)

\* _split_respecting_brackets
SplitRespectingBrackets(text) ==
  LET cuts == {i \in 1..Len(text) : text[i] = "," /\ BracketCount(text, i) = 0}
      ps == Pieces(text, cuts, 1)
      kept == IF Len(ps[Len(ps)]) = 0 THEN SubSeq(ps, 1, Len(ps) - 1) ELSE ps
  IN [i \in 1..Len(kept) |-> Strip(kept[i], Ws)]

----------------------------------------------------------------------------
(* MongoToSql: rendering a filter *)

\* _escape_quotes: s.replace("'", "''")
EscapeQuotes(s) == Replace(s, <<"'">>, <<"'", "'">>)

\* str(x) of a scalar
PyStr(x) ==
  CASE x.t = "int" -> Str(x.v)
    [] x.t = "str" -> x.v
    [] x.t = "float" -> x.v
    [] x.t = "bool" -> IF x.v THEN <<"True">> ELSE <<"False">>
    [] x.t = "null" -> <<"None">>

Quoted(s) == <<"'">> \o EscapeQuotes(s) \o <<"'">>

\* _quote_if_needed
QuoteIfNeeded(val) ==
  IF val.t = "null" THEN <<"NULL">>
  ELSE IF IsNumber(val) THEN PyStr(val)
  ELSE Quoted(PyStr(val))

OpMap == {<<"gt", <<">">>>>, <<"gte", <<">", "=">>>>, <<"lt", <<"<">>>>, <<"lte", <<"<", "=">>>>,
          <<"eq", <<"=">>>>, <<"ne", <<"<", ">">>>>, <<"regex", <<"LIKE">>>>}

InOpMap(op) == Len(op) = 2 /\ op[1] = "$" /\ \E e \in OpMap : e[1] = op[2]
SqlOp(op) == (CHOOSE e \in OpMap : e[1] = op[2])[2]

\* the val_str of _convert_operator
ValStr(val) ==
  IF val.t = "null" THEN <<"NULL">>
  ELSE IF IsNumber(val) THEN PyStr(val)
  ELSE IF IsList(val) THEN Join([i \in 1..Len(val.v) |-> QuoteIfNeeded(val.v[i])], <<",", " ">>)
  ELSE Quoted(PyStr(val))

\* the $regex branch of _convert_operator
LikePattern(field, val) ==
  LET Like(p) ==
        IF Len(p) > 0 /\ p[1] = "^"
          THEN field \o <<" ", "LIKE", " ", "'">> \o EscapeQuotes(Tail(p)) \o <<"%", "'">>
        ELSE IF Len(p) > 0 /\ p[Len(p)] = "$"
          THEN field \o <<" ", "LIKE", " ", "'", "%">> \o EscapeQuotes(SubSeq(p, 1, Len(p) - 1)) \o <<"'">>
        ELSE field \o <<" ", "LIKE", " ", "'", "%">> \o EscapeQuotes(p) \o <<"%", "'">>
  IN Like(PyStr(val))

EmptyInClause == <<"FALSE">>
EmptyNinClause == <<"TRUE">>

\* a conversion without the null cases: a null is compared like any value
ConvertOperatorNoNull(field, op, val) ==
  IF InOpMap(op) THEN field \o <<" ">> \o SqlOp(op) \o <<" ">> \o ValStr(val)
  ELSE IF op = <<"$", "exists">> THEN field \o <<" ", "IS", " ", "NOT", " ", "NULL">>
  ELSE field \o <<" ", "IN", " ", "(">> \o ValStr(val) \o <<")">>

\* _convert_operator
ConvertOperator(field, op, val) ==
  LET Converted(val_str) ==
        IF val.t = "null" /\ op = <<"$", "eq">> THEN field \o <<" ", "IS", " ", "NULL">>
        ELSE IF val.t = "null" /\ op = <<"$", "ne">>
          THEN field \o <<" ", "IS", " ", "NOT", " ", "NULL">>
        ELSE IF InOpMap(op) THEN
          (IF op = <<"$", "regex">> THEN LikePattern(field, val)
           ELSE field \o <<" ">> \o SqlOp(op) \o <<" ">> \o val_str)
        ELSE IF op = <<"$", "in">> THEN
          (IF ~Truthy(val) THEN EmptyInClause
           ELSE field \o <<" ", "IN", " ", "(">> \o val_str \o <<")">>)
        ELSE IF op = <<"$", "nin">> THEN
          (IF ~Truthy(val) THEN EmptyNinClause
           ELSE field \o <<" ", "NOT", " ", "IN", " ", "(">> \o val_str \o <<")">>)
        ELSE IF op = <<"$", "exists">> THEN
          (IF Truthy(val) THEN field \o <<" ", "IS", " ", "NOT", " ", "NULL">>
           ELSE field \o <<" ", "IS", " ", "NULL">>)
        ELSE field \o <<" ", "/*", "unknown", " ", "op", " ">> \o op \o <<"*/", " ">> \o val_str
  IN Converted(ValStr(val))

NonEmpty(parts) == SelectSeq(parts, LAMBDA c : Len(c) > 0)

\* the clauses of one field of _build_basic_conditions
FieldClauses(field, expr) ==
  IF IsDict(expr)
    THEN NonEmpty([i \in 1..Len(expr.v) |-> ConvertOperator(field, expr.v[i].k, expr.v[i].v)])
  ELSE IF IsNumber(expr) THEN <<field \o <<" ", "=", " ">> \o PyStr(expr)>>
  ELSE IF expr.t = "null" THEN <<field \o <<" ", "IS", " ", "NULL">>>>
  ELSE <<field \o <<" ", "=", " ">> \o Quoted(PyStr(expr))>>

\* _build_basic_conditions
BuildBasicConditions(items) ==
  Join(Cat([i \in 1..Len(items) |-> FieldClauses(items[i].k, items[i].v)]), <<" ", "AND", " ">>)

Grouped(conditions, word) ==
  <<"(">> \o Join(NonEmpty(conditions), <<")", " ", word, " ", "(">>) \o <<")">>

\* _build_where_sql
RECURSIVE BuildWhereSql(_)
BuildWhereSql(f) ==
  IF ~Truthy(f) THEN <<>>
  ELSE IF IsDict(f) THEN
    (IF HasKey(f.v, <<"$", "and">>)
       THEN LET subs == Get(f.v, <<"$", "and">>).v
            IN Grouped([i \in 1..Len(subs) |-> BuildWhereSql(subs[i])], "AND")
     ELSE IF HasKey(f.v, <<"$", "or">>)
       THEN LET subs == Get(f.v, <<"$", "or">>).v
            IN Grouped([i \in 1..Len(subs) |-> BuildWhereSql(subs[i])], "OR")
     ELSE BuildBasicConditions(f.v))
  ELSE IF IsList(f) THEN Grouped([i \in 1..Len(f.v) |-> BuildWhereSql(f.v[i])], "AND")
  ELSE <<>>

\* _build_order_by_sql, of a list of (field, direction)
BuildOrderBySql(sort) ==
  Join([i \in 1..Len(sort) |->
          sort[i].k \o <<" ", IF sort[i].v = VInt(1) THEN "ASC" ELSE "DESC">>],
       <<",", " ">>)

----------------------------------------------------------------------------
(* MongoToSql: the shell-call patterns *)

\* what a handler hands back: the result of the call and what it read
NoIR ==
  [op |-> "none", collection |-> <<>>, find |-> Absent, projection |-> Absent,
   sort |-> Absent, limit |-> Absent, skip |-> Absent, group |-> Absent,
   pipeline |-> Absent, set |-> Absent, docs |-> Absent, call |-> ""]

Done(o, r) == [out |-> o, ir |-> r]

\* an optional group of a match
NoGroup == [has |-> FALSE, text |-> <<>>, next |-> 0]
Group(text, next) == [has |-> TRUE, text |-> text, next |-> next]

\* db\.(\w+)\.<name>\( at position i, <name> one of names
CallHeadAt(q, i, names) ==
  /\ i + 5 <= Len(q)
  /\ q[i] = "db" /\ q[i + 1] = "." /\ IsWord(q[i + 2])
  /\ LET e == WordRunEnd(q, i + 2)
     IN e + 3 <= Len(q) /\ q[e + 1] = "." /\ q[e + 2] \in names /\ q[e + 3] = "("

\* the (\w+) of the head at i, and where the arguments start
HeadName(q, i) == SubSeq(q, i + 2, WordRunEnd(q, i + 2))
ArgStart(q, i) == WordRunEnd(q, i + 2) + 4

\* re.search(r'\.<name>\(', q), <name> one of names
HasCall(q, names) ==
  \E i \in 1..(Len(q) - 2) : q[i] = "." /\ q[i + 1] \in names /\ q[i + 2] = "("

InsertNames == {"insert", "insertOne", "insertMany"}
UpdateNames == {"update", "updateOne", "updateMany"}
DeleteNames == {"delete", "deleteOne", "deleteMany"}

\* (?:\.<name>\((\d+)\))? at position p
NumCall(q, name, p) ==
  LET e == DigitsEnd(q, p + 3)
  IN IF StartsAt(q, <<".", name, "(">>, p) /\ e > p + 3 /\ e <= Len(q) /\ q[e] = ")"
     THEN Group(SubSeq(q, p + 3, e - 1), e + 1)
     ELSE [NoGroup EXCEPT !.next = p]

\* (?:\.sort\(([\s\S]*?)\))? at position p: up to the first closing parenthesis
SortCall(q, p) ==
  LET c == Find(q, <<")">>, p + 3)
  IN IF StartsAt(q, <<".", "sort", "(">>, p) /\ c # 0
     THEN Group(SubSeq(q, p + 3, c - 1), c + 1)
     ELSE [NoGroup EXCEPT !.next = p]

FindStarts(q) ==
  {i \in 1..Len(q) : CallHeadAt(q, i, {"find"}) /\ Find(q, <<")">>, ArgStart(q, i)) # 0}

\* re.search(self.find_pattern, q): the arguments run to the first closing
\* parenthesis, then .sort(), .limit(), .skip() are taken in that order only
FindMatch(q) ==
  LET Skipped(i, a, c, srt, lim) ==
        [collection |-> HeadName(q, i), args |-> SubSeq(q, a, c - 1),
         sort |-> srt, limit |-> lim, skip |-> NumCall(q, "skip", lim.next)]
      Sorted(i, a, c, srt) == Skipped(i, a, c, srt, NumCall(q, "limit", srt.next))
      Closed(i, a, c) == Sorted(i, a, c, SortCall(q, c + 1))
      Opened(i, a) == Closed(i, a, Find(q, <<")">>, a))
      Started(i) == Opened(i, ArgStart(q, i))
  IN Started(Min(FindStarts(q)))

\* (?:,\s*({.*?}))?\) at position e: the options group is tried first
OptionEnds(q, e) ==
  IF e <= Len(q) /\ q[e] = "," /\ SkipWs(q, e + 1) <= Len(q) /\ q[SkipWs(q, e + 1)] = "{"
  THEN {k \in (SkipWs(q, e + 1) + 1)..(Len(q) - 1) : q[k] = "}" /\ q[k + 1] = ")"}
  ELSE {}

TailOk(q, e) == OptionEnds(q, e) # {} \/ (e <= Len(q) /\ q[e] = ")")

TailGroup(q, e) ==
  IF OptionEnds(q, e) # {}
  THEN Group(SubSeq(q, SkipWs(q, e + 1), Min(OptionEnds(q, e))), Min(OptionEnds(q, e)) + 2)
  ELSE [NoGroup EXCEPT !.next = e + 1]

DeleteStarts(q) ==
  {i \in 1..Len(q) : CallHeadAt(q, i, DeleteNames)
                     /\ \E e \in ArgStart(q, i)..Len(q) : TailOk(q, e)}

\* re.search(self.delete_pattern, q): the filter is the shortest text after
\* which the tail matches
DeleteMatch(q) ==
  LET Ended(i, a, e) ==
        [collection |-> HeadName(q, i), filter |-> SubSeq(q, a, e - 1),
         options |-> TailGroup(q, e)]
      Opened(i, a) == Ended(i, a, Min({x \in a..Len(q) : TailOk(q, x)}))
      Started(i) == Opened(i, ArgStart(q, i))
  IN Started(Min(DeleteStarts(q)))

\* the commas at which (.*?),\s*(.*?) can split the arguments that start at a
UpdateCommas(q, a) ==
  {c \in a..Len(q) : q[c] = "," /\ \E e \in SkipWs(q, c + 1)..Len(q) : TailOk(q, e)}

UpdateStarts(q) ==
  {i \in 1..Len(q) : CallHeadAt(q, i, UpdateNames) /\ UpdateCommas(q, ArgStart(q, i)) # {}}

\* re.search(self.update_pattern, q): the filter ends at the first comma
UpdateMatch(q) ==
  LET Ended(i, a, c, b, e) ==
        [collection |-> HeadName(q, i), filter |-> SubSeq(q, a, c - 1),
         update |-> SubSeq(q, b, e - 1), options |-> TailGroup(q, e)]
      Second(i, a, c, b) == Ended(i, a, c, b, Min({x \in b..Len(q) : TailOk(q, x)}))
      Split1(i, a, c) == Second(i, a, c, SkipWs(q, c + 1))
      Opened(i, a) == Split1(i, a, Min(UpdateCommas(q, a)))
      Started(i) == Opened(i, ArgStart(q, i))
  IN Started(Min(UpdateStarts(q)))

----------------------------------------------------------------------------
(* MongoToSql: the handlers *)

EmptyObject == <<"{", "}">>

IsOne(x) == x \in {VInt(1), VBool(TRUE)}
IsZeroOrOne(x) == x \in {VInt(0), VInt(1), VBool(TRUE), VBool(FALSE)}

\* isinstance(x, int) and x > 0
PositiveInt(x) == x # Absent /\ ((x.t = "int" /\ x.v > 0) \/ (x.t = "bool" /\ x.v))

\* the column list of a projection: the fields mapped to 1, or *
Columns(projection) ==
  LET cols == SelectSeq(projection.v, LAMBDA it : IsOne(it.v))
  IN IF IsDict(projection) /\ Len(cols) > 0 THEN Join(Keys(cols), <<",", " ">>) ELSE <<"*">>

\* a renderer without the sentinel: a skip without a limit is a bare OFFSET
LimitSkipSqlBare(limit_val, skip_val) ==
  (IF PositiveInt(limit_val) THEN <<" ", "LIMIT", " ">> \o PyStr(limit_val) ELSE <<>>)
  \o (IF PositiveInt(skip_val) THEN <<" ", "OFFSET", " ">> \o PyStr(skip_val) ELSE <<>>)

\* the LIMIT / OFFSET the renderer appends
LimitSkipSql(limit_val, skip_val) ==
  IF PositiveInt(limit_val)
    THEN <<" ", "LIMIT", " ">> \o PyStr(limit_val)
         \o (IF PositiveInt(skip_val) THEN <<" ", "OFFSET", " ">> \o PyStr(skip_val) ELSE <<>>)
  ELSE IF PositiveInt(skip_val)
    THEN <<" ", "LIMIT", " ">> \o Str(BigintUnsignedMax) \o <<" ", "OFFSET", " ">> \o PyStr(skip_val)
  ELSE <<>>

\* the sort list of a dict: its items, as a list of (field, direction) pairs
SortPairs(sort_obj) == VList(sort_obj.v)

\* the 'group' branch of _mongo_find_to_sql
GroupSql(obj) ==
  LET stage == obj.group.v
      grp == IF HasKey(stage, <<"$", "group">>) THEN Get(stage, <<"$", "group">>) ELSE VDict(<<>>)
      id == IF HasKey(grp.v, <<"_id">>) THEN Get(grp.v, <<"_id">>) ELSE VDict(<<>>)
      Select(cols, where, order) ==
        Ret(<<"SELECT", " ">> \o cols \o <<",", " ", "COUNT(*)", " ", "FROM", " ">> \o obj.collection
            \o (IF Len(where) > 0 THEN <<" ", "WHERE", " ">> \o where ELSE <<>>)
            \o <<" ", "GROUP", " ", "BY", " ">> \o cols
            \o (IF Len(order) > 0 THEN <<" ", "ORDER", " ", "BY", " ">> \o order ELSE <<>>)
            \o (IF PositiveInt(obj.limit) THEN <<" ", "LIMIT", " ">> \o PyStr(obj.limit) ELSE <<>>)
            \o <<";">>)
      Grouping(by) ==
        IF ~IsDict(by) \/ ~Truthy(by) THEN Err("ValueError")
        ELSE Select(Join(Keys(by.v), <<",", " ">>),
                    BuildWhereSql(IF obj.find = Absent THEN VDict(<<>>) ELSE obj.find),
                    IF obj.sort = Absent THEN <<>> ELSE BuildOrderBySql(obj.sort.v))
  IN Grouping(id)

\* d.get(k): None when the key is missing
GetOrNull(items, k) == IF HasKey(items, k) THEN Get(items, k) ELSE VNull

\* next((stage.get(k) for stage in pipeline if k in stage), None)
FirstStage(pipeline, k) ==
  LET S == {i \in 1..Len(pipeline) : HasKey(pipeline[i].v, k)}
  IN IF S = {} THEN VNull ELSE Get(pipeline[Min(S)].v, k)

\* the column list of _handle_join_pipeline
JoinColumns(proj, table, joined) ==
  Join([i \in 1..Len(proj.v) |->
          IF StartsAt(proj.v[i].k, joined \o <<".">>, 1) THEN proj.v[i].k
          ELSE table \o <<".">> \o proj.v[i].k],
       <<",", " ">>)

\* _handle_join_pipeline
HandleJoinPipeline(obj) ==
  LET table == obj.collection
      pipeline == IF obj.pipeline = Absent THEN VList(<<>>) ELSE obj.pipeline
      Select(joined, local, foreign, proj, where_sql, order_sql, limit_stage) ==
        Ret(<<"SELECT", " ">>
            \o (IF Truthy(proj) THEN JoinColumns(proj, table, joined)
                ELSE table \o <<".", "*", ",", " ">> \o joined \o <<".", "*">>)
            \o <<" ", "FROM", " ">> \o table \o <<" ", "JOIN", " ">> \o joined
            \o <<" ", "ON", " ">> \o table \o <<".">> \o local
            \o <<" ", "=", " ">> \o joined \o <<".">> \o foreign
            \o (IF Len(where_sql) > 0 THEN <<" ", "WHERE", " ">> \o where_sql ELSE <<>>)
            \o (IF Len(order_sql) > 0 THEN <<" ", "ORDER", " ", "BY", " ">> \o order_sql ELSE <<>>)
            \o (IF limit_stage.t \in {"int", "bool"}
                THEN <<" ", "LIMIT", " ">> \o PyStr(limit_stage) ELSE <<>>)
            \o <<";">>)
      Stages(joined, local, foreign, match_stage, sort_stage) ==
        IF ~(Truthy(joined) /\ Truthy(local) /\ Truthy(foreign)) THEN Err("ValueError")
        ELSE Select(PyStr(joined), PyStr(local), PyStr(foreign),
                    FirstStage(pipeline.v, <<"$", "project">>),
                    IF Truthy(match_stage) THEN BuildWhereSql(match_stage) ELSE <<>>,
                    IF Truthy(sort_stage) /\ IsDict(sort_stage)
                    THEN BuildOrderBySql(SortPairs(sort_stage).v) ELSE <<>>,
                    FirstStage(pipeline.v, <<"$", "limit">>))
      Lookup(lookup) ==
        IF ~Truthy(lookup) THEN Err("ValueError")
        ELSE IF ~IsDict(lookup) THEN Err("AttributeError")
        ELSE Stages(GetOrNull(lookup.v, <<"from">>), GetOrNull(lookup.v, <<"localField">>),
                    GetOrNull(lookup.v, <<"foreignField">>),
                    FirstStage(pipeline.v, <<"$", "match">>), FirstStage(pipeline.v, <<"$", "sort">>))
  IN IF ~IsList(pipeline) \/ ~Truthy(pipeline) THEN Err("ValueError")
     ELSE Lookup(IF IsDict(pipeline.v[1]) THEN GetOrNull(pipeline.v[1].v, <<"$", "lookup">>) ELSE VNull)

\* _mongo_find_to_sql
MongoFindToSql(obj) ==
  LET Select(projection, where, order) ==
        IF obj.projection # Absent
           /\ (~IsDict(projection) \/ \E i \in 1..Len(projection.v) : ~IsZeroOrOne(projection.v[i].v))
          THEN Err("ValueError")
        ELSE Ret(<<"SELECT", " ">> \o Columns(projection) \o <<" ", "FROM", " ">> \o obj.collection
                 \o (IF Len(where) > 0 THEN <<" ", "WHERE", " ">> \o where ELSE <<>>)
                 \o (IF Len(order) > 0 THEN <<" ", "ORDER", " ", "BY", " ">> \o order ELSE <<>>)
                 \o LimitSkipSql(obj.limit, obj.skip)
                 \o <<";">>)
  IN IF obj.group # Absent THEN GroupSql(obj)
     ELSE IF obj.pipeline # Absent THEN HandleJoinPipeline(obj)
     ELSE Select(IF obj.projection = Absent THEN VDict(<<>>) ELSE obj.projection,
                 BuildWhereSql(IF obj.find = Absent THEN VDict(<<>>) ELSE obj.find),
                 BuildOrderBySql(IF obj.sort = Absent THEN <<>> ELSE obj.sort.v))

\* the rendering step of _handle_find
FindRendered(mongo_obj) == Done(MongoFindToSql(mongo_obj), mongo_obj)

\* the mongo_obj _handle_find builds of a match m and its parsed arguments e
FindParsed(m, e) ==
  IF ~e[1].ok \/ ~e[2].ok \/ ~e[3].ok \/ ~IsDict(e[3].v) THEN Done(Err("ValueError"), NoIR)
  ELSE FindRendered([NoIR EXCEPT
                       !.op = "find", !.call = "find",
                       !.collection = m.collection,
                       !.find = e[1].v,
                       !.projection = e[2].v,
                       !.sort = IF Truthy(e[3].v) THEN SortPairs(e[3].v) ELSE Absent,
                       !.limit = IF m.limit.has THEN VInt(PyInt(m.limit.text)) ELSE Absent,
                       !.skip = IF m.skip.has THEN VInt(PyInt(m.skip.text)) ELSE Absent])

\* the filter, the projection and the sort object of a match, parsed
FindParams(m, params) ==
  FindParsed(m, [k \in 1..3 |->
                   IF k = 3 /\ ~(m.sort.has /\ Len(m.sort.text) > 0)
                   THEN [ok |-> TRUE, v |-> VDict(<<>>)]
                   ELSE ParseMongoJson(<<IF Len(params) > 0 THEN params[1] ELSE EmptyObject,
                                         IF Len(params) > 1 THEN params[2] ELSE EmptyObject,
                                         m.sort.text>>[k])])

FindMatched(m) == FindParams(m, SplitRespectingBrackets(Strip(m.args, Ws)))

\* _handle_find; every exception inside is raised again as ValueError
HandleFind(q) ==
  IF FindStarts(q) = {} THEN Done(Err("ValueError"), NoIR) ELSE FindMatched(FindMatch(q))

\* the SET clause of _handle_update
SetClause(set_obj) ==
  Join([i \in 1..Len(set_obj.v) |->
          set_obj.v[i].k \o <<" ", "=", " ">>
          \o (IF IsNumber(set_obj.v[i].v) THEN PyStr(set_obj.v[i].v)
              ELSE Quoted(PyStr(set_obj.v[i].v)))],
       <<",", " ">>)

\* the statement _handle_update renders
UpdateRendered(q, m, filter_obj, set_obj, where_clause, one) ==
  IF ~IsDict(set_obj) THEN Done(Err("AttributeError"), NoIR)
  ELSE Done(Ret(<<"UPDATE", " ">> \o m.collection \o <<" ", "SET", " ">> \o SetClause(set_obj)
                \o (IF Len(where_clause) > 0 THEN <<" ", "WHERE", " ">> \o where_clause ELSE <<>>)
                \o (IF one THEN <<" ", "LIMIT", " ", "1">> ELSE <<>>)
                \o <<";">>),
            [NoIR EXCEPT !.op = "update", !.collection = m.collection,
                         !.find = filter_obj.v, !.set = set_obj,
                         !.limit = IF one THEN VInt(1) ELSE Absent])

\* the filter, the update document and the options of a match, evaluated into e
UpdateParsed(q, m, e) ==
  IF ~e[1].ok \/ ~e[2].ok \/ ~e[3].ok THEN Done(Err("ValueError"), NoIR)
  ELSE IF ~IsDict(e[2].v) THEN Done(Err("AttributeError"), NoIR)
  ELSE UpdateRendered(q, m, e[1],
                      IF HasKey(e[2].v.v, <<"$", "set">>)
                      THEN Get(e[2].v.v, <<"$", "set">>) ELSE e[2].v,
                      BuildWhereSql(e[1].v),
                      Contains(q, <<"updateOne">>))

UpdateMatched(q, m) ==
  UpdateParsed(q, m, [k \in 1..3 |->
                        SafeEval(<<m.filter, m.update,
                                   IF m.options.has THEN m.options.text ELSE EmptyObject>>[k])])

\* _handle_update
HandleUpdate(q) ==
  IF UpdateStarts(q) = {} THEN Done(Err("ValueError"), NoIR) ELSE UpdateMatched(q, UpdateMatch(q))

\* the statement _handle_delete renders
DeleteRendered(m, filter_obj, where_clause, one) ==
  Done(Ret(<<"DELETE", " ", "FROM", " ">> \o m.collection
           \o (IF Len(where_clause) > 0 THEN <<" ", "WHERE", " ">> \o where_clause ELSE <<>>)
           \o (IF one THEN <<" ", "LIMIT", " ", "1">> ELSE <<>>)
           \o <<";">>),
       [NoIR EXCEPT !.op = "delete", !.collection = m.collection,
                    !.find = filter_obj.v,
                    !.limit = IF one THEN VInt(1) ELSE Absent])

\* the filter and the options of a match, evaluated into e
DeleteParsed(q, m, e) ==
  IF ~e[1].ok \/ ~e[2].ok THEN Done(Err("ValueError"), NoIR)
  ELSE DeleteRendered(m, e[1], BuildWhereSql(e[1].v), Contains(q, <<"deleteOne">>))

DeleteMatched(q, m) ==
  DeleteParsed(q, m, [k \in 1..2 |->
                        SafeEval(<<m.filter,
                                   IF m.options.has THEN m.options.text ELSE EmptyObject>>[k])])

\* _handle_delete
HandleDelete(q) ==
  IF DeleteStarts(q) = {} THEN Done(Err("ValueError"), NoIR) ELSE DeleteMatched(q, DeleteMatch(q))

InsertStarts(q) ==
  {i \in 1..Len(q) : CallHeadAt(q, i, InsertNames) /\ \E c \in ArgStart(q, i)..Len(q) : q[c] = ")"}

\* re.search(self.insert_pattern, q): (.*) runs to the last closing parenthesis
InsertMatch(q) ==
  LET Closed(i, a, c) == [collection |-> HeadName(q, i), docs |-> SubSeq(q, a, c - 1)]
      Opened(i, a) ==
        Closed(i, a, CHOOSE x \in a..Len(q) : q[x] = ")" /\ \A y \in (x + 1)..Len(q) : q[y] # ")")
      Started(i) == Opened(i, ArgStart(q, i))
  IN Started(Min(InsertStarts(q)))

\* all_fields: the keys of all documents, a Python set
AllFields(docs) == UNION {{docs[k].v[j].k : j \in 1..Len(docs[k].v)} : k \in 1..Len(docs)}

\* The orders in which a set of strings can be iterated.  The hash of a str
\* is salted per process, so the order is any one of them; within one call
\* every iteration of the unchanged set gives the same order.
Orders(S) == {o \in [1..Cardinality(S) -> S] : \A x \in S : \E i \in 1..Cardinality(S) : o[i] = x}

\* one VALUES row of _handle_insert
InsertRow(doc, fields) ==
  <<"(">>
  \o Join([i \in 1..Len(fields) |->
             IF HasKey(doc.v, fields[i])
             THEN (IF IsNumber(Get(doc.v, fields[i])) THEN PyStr(Get(doc.v, fields[i]))
                   ELSE Quoted(PyStr(Get(doc.v, fields[i]))))
             ELSE <<"NULL">>],
          <<",", " ">>)
  \o <<")">>

\* the statement _handle_insert returns when all_fields is iterated as fields
InsertSql(collection, docs, fields) ==
  <<"INSERT", " ", "INTO", " ">> \o collection \o <<" ", "(">> \o Join(fields, <<",", " ">>)
  \o <<")", " ", "VALUES", " ">>
  \o Join([k \in 1..Len(docs) |-> InsertRow(docs[k], fields)], <<",", " ">>) \o <<";">>

\* the documents of a match, evaluated, and what _handle_insert renders of them
InsertParsed(m, docs) ==
  LET Rendered(list) ==
        {Done(Ret(InsertSql(m.collection, list, fields)),
              [NoIR EXCEPT !.op = "insert", !.collection = m.collection, !.docs = list]) :
           fields \in Orders(AllFields(list))}
      Listed(list) ==
        IF ~Truthy(list) THEN {Done(Err("ValueError"), NoIR)}
        ELSE IF IsNumber(list) THEN {Done(Err("TypeError"), NoIR)}
        ELSE IF ~IsList(list) \/ \E k \in 1..Len(list.v) : ~IsDict(list.v[k])
          THEN {Done(Err("AttributeError"), NoIR)}
        ELSE Rendered(list.v)
  IN IF ~docs.ok THEN {Done(Err("ValueError"), NoIR)}
     ELSE Listed(IF IsDict(docs.v) THEN VList(<<docs.v>>) ELSE docs.v)

InsertMatched(m) == InsertParsed(m, SafeEval(m.docs))

\* _handle_insert: the results it can give, one for each order in which the
\* set of field names can be iterated
HandleInsert(q) ==
  IF InsertStarts(q) = {} THEN {Done(Err("ValueError"), NoIR)}
  ELSE InsertMatched(InsertMatch(q))

AggregateStarts(q) ==
  {i \in 1..Len(q) : CallHeadAt(q, i, {"aggregate"}) /\ \E c \in ArgStart(q, i)..Len(q) : q[c] = ")"}

\* re.search(self.aggregate_pattern, q): (.*) runs to the last closing parenthesis
AggregateMatch(q) ==
  LET Closed(i, a, c) == [collection |-> HeadName(q, i), pipeline |-> SubSeq(q, a, c - 1)]
      Opened(i, a) ==
        Closed(i, a, CHOOSE x \in a..Len(q) : q[x] = ")" /\ \A y \in (x + 1)..Len(q) : q[y] # ")")
      Started(i) == Opened(i, ArgStart(q, i))
  IN Started(Min(AggregateStarts(q)))

\* k in stage
InStage(stage, k) == IsDict(stage) /\ HasKey(stage.v, k)

\* the stage loop of _handle_aggregate: each stage sets the entry of its first
\* matching key, a later stage overwriting an earlier one
RECURSIVE FoldStages(_, _)
FoldStages(stages, obj) ==
  IF Len(stages) = 0 THEN obj
  ELSE LET st == Head(stages).v
       IN FoldStages(Tail(stages),
            IF HasKey(st, <<"$", "match">>) THEN [obj EXCEPT !.find = Get(st, <<"$", "match">>)]
            ELSE IF HasKey(st, <<"$", "project">>)
              THEN [obj EXCEPT !.projection = Get(st, <<"$", "project">>)]
            ELSE IF HasKey(st, <<"$", "sort">>)
              THEN [obj EXCEPT !.sort = SortPairs(Get(st, <<"$", "sort">>))]
            ELSE IF HasKey(st, <<"$", "limit">>) THEN [obj EXCEPT !.limit = Get(st, <<"$", "limit">>)]
            ELSE IF HasKey(st, <<"$", "skip">>) THEN [obj EXCEPT !.skip = Get(st, <<"$", "skip">>)]
            ELSE obj)

\* the stage loop reads sort_obj.items() of a $sort that is no object
SortNotObject(st) ==
  /\ ~HasKey(st.v, <<"$", "match">>) /\ ~HasKey(st.v, <<"$", "project">>)
  /\ HasKey(st.v, <<"$", "sort">>) /\ ~IsDict(Get(st.v, <<"$", "sort">>))

\* a $lookup first goes to _handle_join_pipeline, a $group anywhere to
\* _mongo_find_to_sql as it stands, any other pipeline after the stage loop
AggregateRendered(joined, obj) ==
  Done(IF joined THEN HandleJoinPipeline(obj) ELSE MongoFindToSql(obj), obj)

AggregateRouted(pipeline, obj) ==
  IF /\ ~InStage(pipeline[1], <<"$", "lookup">>) /\ obj.group = Absent
     /\ \E k \in 1..Len(pipeline) : SortNotObject(pipeline[k])
    THEN Done(Err("AttributeError"), NoIR)
  ELSE AggregateRendered(InStage(pipeline[1], <<"$", "lookup">>),
                         IF InStage(pipeline[1], <<"$", "lookup">>) \/ obj.group # Absent THEN obj
                         ELSE FoldStages(pipeline, obj))

\* the mongo_obj of a pipeline: its first stage's $match and the first stage
\* that holds a $group
AggregateStaged(m, pipeline, groups) ==
  AggregateRouted(pipeline,
                  [NoIR EXCEPT
                     !.op = "aggregate", !.call = "aggregate",
                     !.collection = m.collection,
                     !.pipeline = VList(pipeline),
                     !.find = IF InStage(pipeline[1], <<"$", "match">>)
                              THEN Get(pipeline[1].v, <<"$", "match">>) ELSE Absent,
                     !.group = IF groups = {} THEN Absent ELSE pipeline[Min(groups)]])

\* what the parsed pipeline text has to be: a non-empty list of objects
AggregateShaped(m, pipeline) ==
  IF pipeline.t \in {"int", "float", "bool", "null"} THEN Done(Err("TypeError"), NoIR)
  ELSE IF IsDict(pipeline) /\ Truthy(pipeline) THEN Done(Err("KeyError"), NoIR)
  ELSE IF ~IsList(pipeline) \/ ~Truthy(pipeline) THEN Done(Err("ValueError"), NoIR)
  ELSE IF \E k \in 1..Len(pipeline.v) : pipeline.v[k].t \in {"int", "float", "bool", "null"}
    THEN Done(Err("TypeError"), NoIR)
  ELSE AggregateStaged(m, pipeline.v,
                       {k \in 1..Len(pipeline.v) : InStage(pipeline.v[k], <<"$", "group">>)})

AggregateParsed(m, pipeline) ==
  IF ~pipeline.ok THEN Done(Err("ValueError"), NoIR) ELSE AggregateShaped(m, pipeline.v)

AggregateMatched(m) == AggregateParsed(m, SafeEval(m.pipeline))

\* _handle_aggregate; the stages of a pipeline are objects or scalars
HandleAggregate(q) ==
  IF AggregateStarts(q) = {} THEN Done(Err("ValueError"), NoIR)
  ELSE AggregateMatched(AggregateMatch(q))

\* the handler MongoToSql.convert picks for a stripped query
Handler(q) ==
  IF HasCall(q, {"find"}) THEN "find"
  ELSE IF HasCall(q, InsertNames) THEN "insert"
  ELSE IF HasCall(q, UpdateNames) THEN "update"
  ELSE IF HasCall(q, DeleteNames) THEN "delete"
  ELSE IF HasCall(q, {"aggregate"}) THEN "aggregate"
  ELSE "none"

----------------------------------------------------------------------------
(* The requests of the model: what a caller types into either converter *)

MaxN == 2          \* the largest limit and skip of a request
MaxHops == 1       \* how often a result is fed to the opposite converter

\* -1 stands for a chained call or clause that is not written
Counts == -1..MaxN

\* the JOIN of a SELECT: the joined table d, the aliases of the two tables
\* (empty when a table has none), whether INNER is written out, and whether
\* the ON equality names the joined table's column first
NoJoin == [has |-> FALSE, inner |-> FALSE, alias1 |-> <<>>, alias2 |-> <<>>, flipped |-> FALSE]

NoStmt ==
  [verb |-> "", coll |-> <<"c">>, filter |-> VDict(<<>>), update |-> VDict(<<>>),
   limit |-> -1, skip |-> -1, cols |-> <<>>, where |-> <<>>, conn |-> "AND",
   rows |-> <<>>, semi |-> FALSE, join |-> NoJoin, group |-> <<>>, order |-> <<>>,
   text |-> <<>>, chain |-> <<>>]

\* a value as strict JSON text
RECURSIVE ShowJson(_)
ShowJson(x) ==
  CASE x.t = "dict" ->
         <<"{">> \o Join([i \in 1..Len(x.v) |->
                            <<"\"">> \o x.v[i].k \o <<"\"", ":", " ">> \o ShowJson(x.v[i].v)],
                         <<",", " ">>) \o <<"}">>
    [] x.t = "list" ->
         <<"[">> \o Join([i \in 1..Len(x.v) |-> ShowJson(x.v[i])], <<",", " ">>) \o <<"]">>
    [] x.t = "str" -> <<"\"">> \o x.v \o <<"\"">>
    [] x.t = "int" -> Str(x.v)
    [] x.t = "bool" -> IF x.v THEN <<"true">> ELSE <<"false">>
    [] x.t = "null" -> <<"null">>

RECURSIVE SeqsUpTo(_, _)
\* the sequences over S of length at most n
SeqsUpTo(S, n) ==
  IF n = 0 THEN {<<>>}
  ELSE LET R == SeqsUpTo(S, n - 1) IN R \cup {Append(r, x) : r \in {r \in R : Len(r) = n - 1}, x \in S}

D1(k, v) == VDict(<<Item(k, v)>>)
D2(k1, v1, k2, v2) == VDict(<<Item(k1, v1), Item(k2, v2)>>)
Op(name) == <<"$", name>>

OBrien == VStr(<<"O", "'", "B">>)

\* the comparisons the filters of the model are built around
Cores ==
  {D1(<<"f">>, D1(Op("in"), VList(<<>>))),
   D1(<<"f">>, D1(Op("nin"), VList(<<>>))),
   D1(<<"age">>, D1(Op("gt"), VInt(30))),
   D1(<<"n">>, VStr(<<"O", "'", "B">>)),
   D1(<<"note">>, VStr(<<"deleteOne">>)),
   D1(<<"note">>, VStr(<<"updateOne">>))}

Sibling == D1(<<"g">>, VInt(1))

\* a comparison at the top level, inside $or, inside $and, and beside $or
Placed(c) ==
  {c,
   D1(Op("or"), VList(<<c, Sibling>>)),
   D1(Op("and"), VList(<<c, Sibling>>)),
   VDict(c.v \o <<Item(Op("or"), VList(<<Sibling>>))>>)}

Filters == {VDict(<<>>)} \cup UNION {Placed(c) : c \in Cores}

Updates ==
  {D1(Op("set"), D1(<<"g">>, VInt(1))),
   D1(Op("set"), D1(<<"note">>, VStr(<<"updateOne">>))),
   D1(<<"g">>, VNull)}

\* the documents of the inserts: one or two keys, a null, a quote, a key that
\* only the second document has
Documents ==
  {D1(<<"a">>, VInt(1)), D2(<<"a">>, VInt(1), <<"b">>, VStr(<<"x">>)),
   D1(<<"a">>, VNull), D1(<<"a">>, OBrien), D2(<<"b">>, VInt(2), <<"a">>, VInt(3))}

MaxDocs == 2       \* the most documents of an insertMany

Inserts ==
  {[NoStmt EXCEPT !.verb = "insertOne", !.filter = d] : d \in Documents}
  \cup {[NoStmt EXCEPT !.verb = "insertMany", !.filter = VList(ds)] :
          ds \in SeqsUpTo({D1(<<"a">>, VInt(1)), D1(<<"b">>, VInt(2)),
                           D2(<<"b">>, VInt(2), <<"c">>, VInt(3))}, MaxDocs)}

\* the scalar operators of a comparison and the values they are applied to
ScalarOps == {"gt", "gte", "lt", "lte", "eq", "ne"}
Scalars == {VInt(5), VStr(<<"x">>), OBrien, VNull}

\* one field compared: by an operator, bare, by $exists, by two operators, and
\* against a list
Comparisons ==
  {D1(<<"f">>, D1(Op(o), v)) : o \in ScalarOps, v \in Scalars}
  \cup {D1(<<"f">>, v) : v \in Scalars}
  \cup {D1(<<"f">>, D1(Op("exists"), VBool(b))) : b \in BOOLEAN}
  \cup {D1(<<"f">>, D2(Op("gt"), VInt(1), Op("lt"), VInt(9))),
        D1(<<"f">>, D1(Op("in"), VList(<<VInt(1), VStr(<<"x">>), VNull>>)))}

Leaf1 == D1(<<"f">>, VInt(1))
Leaf2 == D1(<<"g">>, D1(Op("gt"), VInt(2)))
Leaf3 == D1(<<"h">>, VStr(<<"x">>))

\* filter trees of $and and $or nodes: flat, nested either way, with an empty
\* child and with no child
Trees ==
  {D1(Op(w), VList(cs)) : w \in {"and", "or"},
                          cs \in {<<>>, <<VDict(<<>>)>>, <<Leaf1>>, <<Leaf1, Leaf2>>,
                                  <<Leaf2, Leaf1, Leaf3>>, <<Leaf1, VDict(<<>>)>>}}
  \cup {D1(Op(w), VList(<<D1(Op(u), VList(<<Leaf1, Leaf2>>)), Leaf3>>)) :
          w \in {"and", "or"}, u \in {"and", "or"}}
  \cup {D1(Op(w), VList(<<Leaf3, D1(Op(u), VList(cs))>>)) :
          w \in {"and", "or"}, u \in {"and", "or"}, cs \in {<<>>, <<Leaf1, Leaf2>>}}

\* a field condition in one object with a $and or $or key, before and after
\* it, and both keys in one object
BesideGroups ==
  {D2(<<"f">>, VInt(1), Op(w), VList(<<Leaf2, Leaf3>>)) : w \in {"and", "or"}}
  \cup {D2(Op(w), VList(<<Leaf2, Leaf3>>), <<"f">>, VInt(1)) : w \in {"and", "or"}}
  \cup {D2(Op("or"), VList(<<Leaf1, Leaf2>>), Op("and"), VList(<<Leaf3>>))}

\* the $regex patterns of the model: no anchor, ^ in front, $ behind, both
RegexPatterns == {<<"a">>, <<"^", "a">>, <<"a", "$">>, <<"^", "a", "$">>}

Regexes == {D1(<<"f">>, D1(Op("regex"), VStr(p))) : p \in RegexPatterns}

\* Object literals of the relaxed dialect, as <<the text written, the filter it
\* is meant to be>>: keys without quotes, operators without $, a key that ends
\* in an operator name, nin, and $gt without quotes
Age30(op) == D1(<<"age">>, D1(Op(op), VInt(30)))
RelaxedLiterals ==
  {<<<<"{", "age", ":", " ", "{", "gt", ":", " ", "3", "0", "}", "}">>, Age30("gt")>>,
   <<<<"{", "\"", "age", "\"", ":", " ", "{", "gt", ":", " ", "3", "0", "}", "}">>, Age30("gt")>>,
   <<<<"{", "\"", "age", "\"", ":", " ", "{", "lte", " ", ":", " ", "3", "0", "}", "}">>, Age30("lte")>>,
   <<<<"{", "\"", "age", "\"", ":", " ", "{", "$", "gt", ":", " ", "3", "0", "}", "}">>, Age30("gt")>>,
   <<<<"{", "\"", "age", "\"", ":", " ", "{", "nin", ":", " ", "[", "1", "]", "}", "}">>,
     D1(<<"age">>, D1(Op("nin"), VList(<<VInt(1)>>)))>>,
   <<<<"{", "\"", "age", "\"", ":", " ", "{", "in", ":", " ", "[", "1", "]", "}", "}">>,
     D1(<<"age">>, D1(Op("in"), VList(<<VInt(1)>>)))>>,
   <<<<"{", "or", ":", " ", "[", "{", "\"", "f", "\"", ":", " ", "1", "}", "]", "}">>,
     D1(Op("or"), VList(<<D1(<<"f">>, VInt(1))>>))>>}
  \cup {<<<<"{", w, ":", " ", "1", "}">>, D1(<<w>>, VInt(1))>> :
          w \in {"f", "phone", "margin", "color", "brand"}}

Relaxed == {[NoStmt EXCEPT !.verb = "find", !.filter = l[2], !.text = l[1]] : l \in RelaxedLiterals}

\* Object literals that lack nothing but closing brackets at the end, as <<the
\* text written, the filter it is meant to be>>
TruncatedLiterals ==
  {<<<<"{", "\"", "f", "\"", ":", " ", "1">>, D1(<<"f">>, VInt(1))>>,
   <<<<"{", "\"", "f", "\"", ":", " ", "{", "\"", "$", "gt", "\"", ":", " ", "1", "}">>,
     D1(<<"f">>, D1(Op("gt"), VInt(1)))>>,
   <<<<"{", "\"", "f", "\"", ":", " ", "{", "\"", "$", "gt", "\"", ":", " ", "1">>,
     D1(<<"f">>, D1(Op("gt"), VInt(1)))>>,
   <<<<"{", "\"", "f", "\"", ":", " ", "{", "\"", "$", "in", "\"", ":", " ", "[", "1", ",", " ", "2">>,
     D1(<<"f">>, D1(Op("in"), VList(<<VInt(1), VInt(2)>>)))>>,
   <<<<"{", "\"", "f", "\"", ":", " ", "{", "\"", "$", "in", "\"", ":", " ", "[", "1", ",", " ", "2", "]">>,
     D1(<<"f">>, D1(Op("in"), VList(<<VInt(1), VInt(2)>>)))>>}

Truncated ==
  {[NoStmt EXCEPT !.verb = "find", !.filter = l[2], !.text = l[1]] : l \in TruncatedLiterals}

\* the chained calls of a find, in every order: every sequence of distinct
\* names among sort, limit, skip
ChainNames == {"sort", "limit", "skip"}
Chains == {c \in SeqsUpTo(ChainNames, 3) : \A i, j \in 1..Len(c) : c[i] = c[j] => i = j} \ {<<>>}
Calls(c) == {c[i] : i \in 1..Len(c)}

\* find({}) with the chain c: sorted by f, limited to MaxN, skipping 1
Chained ==
  {[NoStmt EXCEPT !.verb = "find", !.chain = c,
                  !.order = IF "sort" \in Calls(c) THEN <<"f">> ELSE <<>>,
                  !.limit = IF "limit" \in Calls(c) THEN MaxN ELSE -1,
                  !.skip = IF "skip" \in Calls(c) THEN 1 ELSE -1] : c \in Chains}

\* the stages of the aggregate requests
MatchStage == D1(Op("match"), Leaf1)
ProjectStage == D1(Op("project"), D1(<<"f">>, VInt(1)))
SortStage == D1(Op("sort"), D1(<<"f">>, VInt(1)))
LimitStage == D1(Op("limit"), VInt(2))
SkipStage == D1(Op("skip"), VInt(1))
GroupStage(id) == D1(Op("group"), D1(<<"_id">>, id))
FieldRef(f) == VStr(<<"$", f>>)
ById == D1(<<"f">>, FieldRef("f"))
ByTwo == D2(<<"f">>, FieldRef("f"), <<"g">>, FieldRef("g"))
LookupStage ==
  D1(Op("lookup"),
     VDict(<<Item(<<"from">>, VStr(<<"d">>)), Item(<<"localField">>, VStr(<<"f">>)),
             Item(<<"foreignField">>, VStr(<<"g">>)), Item(<<"as">>, VStr(<<"d">>))>>))
UnwindStage == D1(Op("unwind"), FieldRef("d"))

\* pipelines without $group and without a leading $lookup
PlainPipelines ==
  {<<>>, <<MatchStage>>, <<ProjectStage>>, <<MatchStage, SortStage>>, <<SortStage, LimitStage>>,
   <<LimitStage, SkipStage>>, <<MatchStage, ProjectStage, SortStage, LimitStage, SkipStage>>,
   <<MatchStage, LookupStage>>, <<VInt(5)>>, <<D1(Op("sort"), VInt(1))>>}

\* pipelines with a $group stage: alone, with stages before and after it, and
\* with an _id that is empty or no object
GroupPipelines ==
  {<<GroupStage(ById)>>, <<GroupStage(ByTwo)>>, <<MatchStage, GroupStage(ById)>>,
   <<GroupStage(ById), MatchStage>>, <<GroupStage(ById), SortStage>>,
   <<GroupStage(ById), LimitStage>>, <<SortStage, GroupStage(ById)>>,
   <<MatchStage, GroupStage(ById), SortStage, LimitStage>>,
   <<GroupStage(VDict(<<>>))>>, <<GroupStage(VNull)>>, <<GroupStage(FieldRef("f"))>>,
   <<D1(Op("group"), VDict(<<>>))>>}

\* pipelines led by a $lookup
LookupPipelines ==
  {<<LookupStage>>, <<LookupStage, UnwindStage>>, <<LookupStage, UnwindStage, MatchStage>>,
   <<LookupStage, UnwindStage, MatchStage, ProjectStage, SortStage, LimitStage>>,
   <<D1(Op("lookup"), D1(<<"from">>, VStr(<<"d">>)))>>}

Aggregates ==
  {[NoStmt EXCEPT !.verb = "aggregate", !.filter = VList(p)] :
     p \in PlainPipelines \cup GroupPipelines \cup LookupPipelines}

MongoStmts ==
  {[NoStmt EXCEPT !.verb = "find", !.filter = f, !.limit = l, !.skip = k] :
     f \in {VDict(<<>>)} \cup Cores, l \in Counts, k \in Counts}
  \cup {[NoStmt EXCEPT !.verb = "find", !.filter = f] : f \in Filters}
  \cup {[NoStmt EXCEPT !.verb = v, !.filter = f, !.update = u] :
          v \in {"updateOne", "updateMany"}, f \in Filters, u \in Updates}
  \cup {[NoStmt EXCEPT !.verb = v, !.filter = f] :
          v \in {"deleteOne", "deleteMany", "count"}, f \in Filters}
  \cup Inserts
  \cup {[NoStmt EXCEPT !.verb = "find", !.filter = f] : f \in Comparisons \cup Trees \cup Regexes \cup BesideGroups}
  \cup Relaxed
  \cup Truncated
  \cup Chained
  \cup Aggregates

\* one chained call of the statement s
ShowCall(s, name) ==
  <<".", name, "(">>
  \o (CASE name = "sort" -> <<"{", "\"">> \o s.order \o <<"\"", ":", " ", "1", "}">>
        [] name = "limit" -> Str(s.limit)
        [] name = "skip" -> Str(s.skip))
  \o <<")">>

\* the chained calls of s: in the order of its chain, or else .limit() before
\* .skip()
ShowChain(s) ==
  IF Len(s.chain) > 0 THEN Cat([i \in 1..Len(s.chain) |-> ShowCall(s, s.chain[i])])
  ELSE (IF s.limit >= 0 THEN ShowCall(s, "limit") ELSE <<>>)
       \o (IF s.skip >= 0 THEN ShowCall(s, "skip") ELSE <<>>)

\* db.<coll>.<verb>(<filter>[, <update>])<chained calls>; the filter is
\* printed as strict JSON unless the statement says how it is written
ShowMongo(s) ==
  <<"db", ".">> \o s.coll \o <<".", s.verb, "(">>
  \o (IF Len(s.text) > 0 THEN s.text ELSE ShowJson(s.filter))
  \o (IF s.verb \in {"updateOne", "updateMany"} THEN <<",", " ">> \o ShowJson(s.update) ELSE <<>>)
  \o <<")">>
  \o ShowChain(s)

----------------------------------------------------------------------------
(* sqlparse, as sql_to_mongo uses it: parse(), get_type() and the grouped,     *)
(* whitespace-free tokens of a statement.  The string literals of the model    *)
(* are closed, so a position is outside every literal when an even number of   *)
(* single quotes precedes it.                                                  *)

\* str.upper() on the words of the model
LowerWords ==
  {<<"select", "SELECT">>, <<"delete", "DELETE">>, <<"from", "FROM">>, <<"where", "WHERE">>,
   <<"null", "NULL">>, <<"true", "TRUE">>, <<"false", "FALSE">>, <<"asc", "ASC">>,
   <<"desc", "DESC">>, <<"limit", "LIMIT">>}

Upper(w) ==
  IF \E e \in LowerWords : e[1] = w THEN (CHOOSE e \in LowerWords : e[1] = w)[2] ELSE w

UpperText(t) == [i \in 1..Len(t) |-> Upper(t[i])]

Outside(t, i) == Cardinality({j \in 1..(i - 1) : t[j] = "'"}) % 2 = 0

\* the statement separators: the semicolons outside the literals
Separators(t) == {i \in 1..Len(t) : t[i] = ";" /\ Outside(t, i)}

RECURSIVE StatementsFrom(_, _)
\* a statement runs through its semicolon and the blanks behind it; what is
\* left at the end is a statement unless it is empty or blank
StatementsFrom(t, from) ==
  LET S == {c \in Separators(t) : c >= from}
  IN IF S # {}
       THEN <<SubSeq(t, from, SkipWs(t, Min(S) + 1) - 1)>> \o StatementsFrom(t, SkipWs(t, Min(S) + 1))
     ELSE IF SkipWs(t, from) > Len(t) THEN <<>>
     ELSE <<SubSeq(t, from, Len(t))>>

\* sqlparse.parse(sql_query)
SqlParse(t) == StatementsFrom(t, 1)

DMLWords == {"SELECT", "INSERT", "UPDATE", "DELETE"}
DDLWords == {"CREATE", "DROP", "ALTER"}
KeywordWords ==
  {"FROM", "WHERE", "ORDER", "GROUP", "BY", "LIMIT", "OFFSET", "ASC", "DESC", "AND", "OR",
   "INTO", "VALUES", "SET", "JOIN", "ON", "HAVING", "UNION", "TABLE", "NULL", "TRUE", "FALSE"}

\* statement.get_type()
GetType(st) ==
  LET i == SkipWs(st, 1)
  IN IF i <= Len(st) /\ Upper(st[i]) \in DMLWords \cup DDLWords THEN Upper(st[i]) ELSE "UNKNOWN"

IsNumeral(s) == IsDigit(s) \/ <<s>> = BigintNumeral
IsName(s) == IsWord(s) /\ ~IsNumeral(s) /\ Upper(s) \notin DMLWords \cup DDLWords \cup KeywordWords

RECURSIVE NumeralEnd(_, _)
NumeralEnd(t, i) == IF i < Len(t) /\ IsNumeral(t[i + 1]) THEN NumeralEnd(t, i + 1) ELSE i

\* ORDER BY and GROUP BY are one keyword token each
TwoWordAt(t, i) ==
  /\ Upper(t[i]) \in {"ORDER", "GROUP"}
  /\ i < Len(t) /\ t[i + 1] \in Ws
  /\ SkipWs(t, i + 1) <= Len(t) /\ Upper(t[SkipWs(t, i + 1)]) = "BY"

\* the keywords that close a WHERE group
ClosesWhere(t, i) ==
  Outside(t, i) /\ (TwoWordAt(t, i) \/ Upper(t[i]) \in {"LIMIT", "HAVING", "UNION", "INTO"})

\* an identifier at i, with the ASC / DESC or the alias that follows it
MemberEnd(t, i) ==
  IF IsNumeral(t[i]) THEN NumeralEnd(t, i)
  ELSE LET n == SkipWs(t, i + 1)
       IN IF n > i + 1 /\ n <= Len(t) /\ (Upper(t[n]) \in {"ASC", "DESC"} \/ IsName(t[n]))
          THEN n ELSE i

IsMember(t, i) == i <= Len(t) /\ (IsName(t[i]) \/ IsNumeral(t[i]))

RECURSIVE ListEnd(_, _)
\* the end of the comma-separated list that starts with the member at i
ListEnd(t, i) ==
  LET Comma(e, c) ==
        IF c <= Len(t) /\ t[c] = "," /\ IsMember(t, SkipWs(t, c + 1))
        THEN ListEnd(t, SkipWs(t, c + 1)) ELSE e
      Ended(e) == Comma(e, SkipWs(t, e + 1))
  IN Ended(MemberEnd(t, i))

Tok(kind, text) == [kind |-> kind, text |-> text]

\* the token that starts at the non-blank position i, and its last position
TokenAt(t, i) ==
  IF Upper(t[i]) = "WHERE" THEN
    LET Closed(e) == [tok |-> Tok("Where", SubSeq(t, i, e)), last |-> e]
        Closing(S) == Closed(IF S = {} THEN Len(t) ELSE Min(S) - 1)
    IN Closing({j \in (i + 1)..Len(t) : ClosesWhere(t, j)})
  ELSE IF TwoWordAt(t, i) THEN
    [tok |-> Tok("Keyword", SubSeq(t, i, SkipWs(t, i + 1))), last |-> SkipWs(t, i + 1)]
  ELSE IF Upper(t[i]) \in DMLWords THEN [tok |-> Tok("DML", <<t[i]>>), last |-> i]
  ELSE IF Upper(t[i]) \in DDLWords THEN [tok |-> Tok("DDL", <<t[i]>>), last |-> i]
  ELSE IF Upper(t[i]) \in {"ASC", "DESC"} THEN [tok |-> Tok("Order", <<t[i]>>), last |-> i]
  ELSE IF Upper(t[i]) \in KeywordWords THEN [tok |-> Tok("Keyword", <<t[i]>>), last |-> i]
  ELSE IF t[i] = "*" THEN [tok |-> Tok("Wildcard", <<t[i]>>), last |-> i]
  ELSE IF IsMember(t, i) THEN
    LET Member(e) ==
          [tok |-> Tok(IF Contains(SubSeq(t, i, e), <<",">>) THEN "IdentifierList"
                       ELSE IF IsNumeral(t[i]) THEN "Number" ELSE "Identifier",
                       SubSeq(t, i, e)),
           last |-> e]
    IN Member(ListEnd(t, i))
  ELSE IF t[i] = "'" /\ Find(t, <<"'">>, i + 1) # 0 THEN
    LET Literal(e) == [tok |-> Tok("String", SubSeq(t, i, e)), last |-> e]
    IN Literal(Find(t, <<"'">>, i + 1))
  ELSE [tok |-> Tok("Punctuation", <<t[i]>>), last |-> i]

RECURSIVE TokensFrom(_, _)
TokensFrom(t, from) ==
  LET i == SkipWs(t, from)
      Then(a) == <<a.tok>> \o TokensFrom(t, a.last + 1)
  IN IF i > Len(t) THEN <<>> ELSE Then(TokenAt(t, i))

\* [t for t in statement.tokens if not t.is_whitespace]
Tokens(st) == TokensFrom(st, 1)

----------------------------------------------------------------------------
(* sql_to_mongo: literals, WHERE conditions and the Mongo text *)

\* whether float(t) succeeds on a text that holds a point: digits.digits, the
\* form the model writes a float in and the form str() gives back
IsFloat(t) ==
  LET Dotted(u, d) ==
        d > 1 /\ d < Len(u) /\ AllDigits(SubSeq(u, 1, d - 1)) /\ AllDigits(SubSeq(u, d + 1, Len(u)))
      Signed(u) == Dotted(u, Find(u, <<".">>, 1))
      Stripped(s) == Signed(IF Len(s) > 0 /\ s[1] = "-" THEN Tail(s) ELSE s)
  IN Stripped(Strip(t, Ws))

\* _parse_sql_value
ParseSqlValue(value0) ==
  LET value == Strip(value0, Ws)
      n == Len(value)
  IN IF n > 0 /\ ((value[1] = "'" /\ value[n] = "'") \/ (value[1] = "\"" /\ value[n] = "\""))
       THEN VStr(SubSeq(value, 2, n - 1))
     ELSE IF UpperText(value) = <<"NULL">> THEN VNull
     ELSE IF UpperText(value) = <<"TRUE">> THEN VBool(TRUE)
     ELSE IF UpperText(value) = <<"FALSE">> THEN VBool(FALSE)
     ELSE IF Contains(value, <<".">>) THEN (IF IsFloat(value) THEN VFloat(value) ELSE VStr(value))
     ELSE IF IsInt(value) THEN VInt(PyInt(value))
     ELSE VStr(value)

\* convert_value
ConvertValue(val) ==
  IF IsInt(val) THEN VInt(PyInt(val))
  ELSE IF IsFloat(val) THEN VFloat(Strip(val, Ws))
  ELSE VStr(val)

SqlToMongoOps ==
  {<<<<">">>, "gt">>, <<<<"<">>, "lt">>, <<<<">", "=">>, "gte">>, <<<<"<", "=">>, "lte">>}

\* what one part of the WHERE text adds to the filter
Condition(acc, part) ==
  LET Compared(field, op, val) ==
        IF op = <<"=">> THEN Put(acc, field, VStr(val))
        ELSE IF \E e \in SqlToMongoOps : e[1] = op
          THEN Put(acc, field, D1(Op((CHOOSE e \in SqlToMongoOps : e[1] = op)[2]), ConvertValue(val)))
        ELSE Put(acc, field, D1(Op("op?"), VStr(val)))
      Parted(tokens) ==
        IF Len(tokens) < 3 THEN acc
        ELSE Compared(tokens[1], tokens[2],
                      Strip(Strip(RStrip(Strip(tokens[3], Ws), {";"}), {"'"}), {"\""}))
  IN Parted(SplitWs(part, 2))

RECURSIVE Conditions(_, _, _)
Conditions(acc, parts, k) ==
  IF k > Len(parts) THEN acc
  ELSE LET Then(o) == IF Len(o) >= 0 THEN Conditions(o, parts, k + 1) ELSE o
       IN Then(Condition(acc, parts[k]))

RECURSIVE DictOf(_, _, _)
\* the dict of a list of pairs
DictOf(acc, pairs, k) ==
  IF k > Len(pairs) THEN acc ELSE DictOf(Put(acc, pairs[k].k, pairs[k].v), pairs, k + 1)

\* parse_where_conditions: the filter dict
ParseWhereConditions(text0) ==
  LET text == RStrip(Strip(text0, Ws), {";"})
  IN IF Len(text) = 0 THEN VDict(<<>>)
     ELSE VDict(Conditions(<<>>, Split(text, <<" ", "AND", " ">>), 1))

\* extract_where_clause
ExtractWhereClause(token) ==
  LET raw == Strip(token.text, Ws)
  IN IF Len(raw) > 0 /\ Upper(raw[1]) = "WHERE"
     THEN ParseWhereConditions(Strip(Tail(raw), Ws))
     ELSE ParseWhereConditions(raw)

\* _format_json
RECURSIVE FormatJson(_)
FormatJson(obj) ==
  CASE obj.t = "dict" ->
         <<"{", " ">> \o Join([i \in 1..Len(obj.v) |->
                                 obj.v[i].k \o <<":", " ">> \o FormatJson(obj.v[i].v)],
                              <<",", " ">>) \o <<" ", "}">>
    [] obj.t = "list" ->
         <<"[", " ">> \o Join([i \in 1..Len(obj.v) |-> FormatJson(obj.v[i])], <<",", " ">>)
         \o <<" ", "]">>
    [] obj.t = "str" -> <<"\"">> \o Replace(obj.v, <<"\"">>, <<"\\", "\"">>) \o <<"\"">>
    [] obj.t = "null" -> <<"null">>
    [] OTHER -> PyStr(obj)

\* a formatter that never writes the projection
FormatMongoFindBare(query_obj) ==
  <<"db", ".">> \o query_obj.collection \o <<".", "find", "(">> \o FormatJson(query_obj.find)
  \o <<")">>
  \o (IF query_obj.sort # Absent /\ Len(query_obj.sort.v) > 0
      THEN <<".", "sort", "(">> \o FormatJson(VDict(DictOf(<<>>, query_obj.sort.v, 1))) \o <<")">> ELSE <<>>)
  \o (IF query_obj.limit # Absent /\ Truthy(query_obj.limit)
      THEN <<".", "limit", "(">> \o PyStr(query_obj.limit) \o <<")">> ELSE <<>>)

\* _format_mongo_find
FormatMongoFind(query_obj) ==
  <<"db", ".">> \o query_obj.collection \o <<".", "find", "(">> \o FormatJson(query_obj.find)
  \o (IF query_obj.projection # Absent /\ Truthy(query_obj.projection)
      THEN <<",", " ">> \o FormatJson(query_obj.projection) ELSE <<>>)
  \o <<")">>
  \o (IF query_obj.sort # Absent /\ Len(query_obj.sort.v) > 0
      THEN <<".", "sort", "(">> \o FormatJson(VDict(DictOf(<<>>, query_obj.sort.v, 1))) \o <<")">> ELSE <<>>)
  \o (IF query_obj.limit # Absent /\ Truthy(query_obj.limit)
      THEN <<".", "limit", "(">> \o PyStr(query_obj.limit) \o <<")">> ELSE <<>>)

\* _format_mongo_aggregate
FormatMongoAggregate(collection, pipeline) ==
  <<"db", ".">> \o collection \o <<".", "aggregate", "(">> \o FormatJson(VList(pipeline)) \o <<")">>

----------------------------------------------------------------------------
(* sql_to_mongo: SELECT *)

\* token.ttype is Keyword and token.value.upper() == word
IsKeyword(token, word) == token.kind = "Keyword" /\ UpperText(token.text) = <<word>>

StripAll(parts) == [i \in 1..Len(parts) |-> Strip(parts[i], Ws)]

\* extract_columns
ExtractColumns(token) ==
  IF token.kind = "IdentifierList" THEN StripAll(Split(token.text, <<",">>))
  ELSE IF token.kind = "Identifier" THEN <<Strip(token.text, Ws)>>
  ELSE LET raw == Replace(Strip(token.text, Ws), <<" ">>, <<>>)
       IN IF Len(raw) = 0 THEN <<>> ELSE <<raw>>

\* one column of parse_order_by
OrderItem(part) ==
  LET Worded(sub) ==
        IF Len(sub) = 1 THEN Item(sub[1], VInt(1))
        ELSE IF Len(sub) = 2
          THEN Item(sub[1], IF UpperText(sub[2]) = <<"DESC">> THEN VInt(-1) ELSE VInt(1))
        ELSE Item(Strip(part, Ws), VInt(1))
  IN Worded(SplitWs(part, -1))

\* parse_order_by
ParseOrderBy(token) ==
  LET raw == RStrip(Strip(token.text, Ws), {";"})
  IN IF Len(raw) = 0 THEN <<>>
     ELSE [i \in 1..Len(Split(raw, <<",">>)) |-> OrderItem(Split(raw, <<",">>)[i])]

\* parse_group_by
ParseGroupBy(token) ==
  LET raw == RStrip(Strip(token.text, Ws), {";"})
  IN IF Len(raw) = 0 THEN <<>> ELSE StripAll(Split(raw, <<",">>))

\* parse_limit_value: None when the text is no integer
ParseLimitValue(token) ==
  LET raw == RStrip(Strip(token.text, Ws), {";"})
  IN IF IsInt(raw) THEN VInt(PyInt(raw)) ELSE VNull

\* the locals of parse_select_statement before its loop
Scan0 ==
  [columns |-> <<>>, table_name |-> VNull, where_clause |-> VDict(<<>>), order_by |-> <<>>,
   group_by |-> <<>>, limit_val |-> VNull, reading_columns |-> FALSE, reading_from |-> FALSE,
   i |-> 1]

\* a loop tail without the final i += 1
ScanLimitStuck(tokens, s) ==
  IF IsKeyword(tokens[s.i], "LIMIT") /\ s.i < Len(tokens)
  THEN [s EXCEPT !.limit_val = ParseLimitValue(tokens[s.i + 1]), !.i = s.i + 2]
  ELSE s

\* the end of the loop body: LIMIT with a token behind it, and the i += 1 that
\* every token reaches that no branch has consumed
ScanLimit(tokens, s) ==
  IF IsKeyword(tokens[s.i], "LIMIT") /\ s.i < Len(tokens)
  THEN [s EXCEPT !.limit_val = ParseLimitValue(tokens[s.i + 1]), !.i = s.i + 2]
  ELSE [s EXCEPT !.i = s.i + 1]

\* one iteration of the loop of parse_select_statement; i is the token index
ScanStep(tokens, s) ==
  LET i == s.i
      token == tokens[i]
      n == Len(tokens)
  IN IF token.kind = "DML" /\ UpperText(token.text) = <<"SELECT">>
       THEN [s EXCEPT !.reading_columns = TRUE, !.i = i + 1]
     ELSE IF s.reading_columns THEN
       (IF IsKeyword(token, "FROM")
          THEN [s EXCEPT !.reading_columns = FALSE, !.reading_from = TRUE, !.i = i + 1]
        ELSE IF Len(ExtractColumns(token)) > 0
          THEN [s EXCEPT !.columns = ExtractColumns(token), !.i = i + 1]
        ELSE [s EXCEPT !.i = i + 1])
     ELSE IF s.reading_from THEN
       (IF token.kind = "Keyword" THEN [s EXCEPT !.reading_from = FALSE, !.i = i + 1]
        ELSE [s EXCEPT !.table_name = VStr(Strip(token.text, Ws)), !.reading_from = FALSE,
                       !.i = i + 1])
     ELSE IF token.kind = "Where"
       THEN [s EXCEPT !.where_clause = ExtractWhereClause(token), !.i = i + 1]
     ELSE IF IsKeyword(token, "WHERE") THEN
       (IF i < n
          THEN (IF tokens[i + 1].kind = "Where"
                  THEN [s EXCEPT !.where_clause = ExtractWhereClause(tokens[i + 1]), !.i = i + 2]
                ELSE [s EXCEPT !.where_clause = ParseWhereConditions(Strip(tokens[i + 1].text, Ws)),
                               !.i = i + 2])
        ELSE [s EXCEPT !.i = i + 1])
     ELSE IF IsKeyword(token, "ORDER") THEN
       (IF i + 1 <= n /\ IsKeyword(tokens[i + 1], "BY")
          THEN (IF i + 2 <= n
                  THEN [s EXCEPT !.order_by = ParseOrderBy(tokens[i + 2]), !.i = i + 3]
                ELSE [s EXCEPT !.i = i + 3])
        ELSE [s EXCEPT !.i = i + 2])
     ELSE IF IsKeyword(token, "GROUP") THEN
       (IF i + 1 <= n /\ IsKeyword(tokens[i + 1], "BY")
          THEN (IF i + 2 <= n
                  THEN [s EXCEPT !.group_by = ParseGroupBy(tokens[i + 2]), !.i = i + 3]
                ELSE [s EXCEPT !.i = i + 3])
        ELSE [s EXCEPT !.i = i + 2])
     ELSE ScanLimit(tokens, s)

RECURSIVE Scan(_, _)
Scan(tokens, s) ==
  IF s.i > Len(tokens) THEN s
  ELSE LET Rest(u) == IF Len(u.columns) >= 0 THEN Scan(tokens, u) ELSE u
       IN Rest(ScanStep(tokens, s))

\* parse_select_statement
ParseSelectStatement(statement) == Scan(Tokens(statement), Scan0)

\* build_mongo_find and build_mongo_query
BuildMongoQuery(table_name, columns, where_clause, order_by, group_by, limit_val) ==
  LET projection == IF Len(columns) > 0 /\ \A i \in 1..Len(columns) : columns[i] # <<"*">>
                    THEN DictOf(<<>>, [i \in 1..Len(columns) |-> Item(columns[i], VInt(1))], 1)
                    ELSE <<>>
      id == DictOf(<<>>, [i \in 1..Len(group_by) |->
                            Item(group_by[i], VStr(<<"$">> \o group_by[i]))], 1)
  IN [NoIR EXCEPT
        !.op = "find", !.call = "find",
        !.collection = table_name,
        !.find = IF Truthy(where_clause) THEN where_clause ELSE VDict(<<>>),
        !.projection = IF Len(projection) > 0 THEN VDict(projection) ELSE VNull,
        !.sort = IF Len(order_by) > 0 THEN VList(order_by) ELSE Absent,
        !.limit = IF limit_val # VNull THEN limit_val ELSE Absent,
        !.group = IF Len(group_by) > 0
                  THEN D1(Op("group"), D2(<<"_id">>, VDict(id), <<"count">>, D1(Op("sum"), VInt(1))))
                  ELSE Absent]

\* re.search(r"\bJOIN\b", sql_query, re.IGNORECASE)
HasJoin(q) == \E i \in 1..Len(q) : Upper(q[i]) = "JOIN"

\* where SELECT\s+(.*?)\s+FROM can match from the SELECT at i: the positions of FROM
FromAfter(q, i) ==
  {p \in SkipWs(q, i + 1)..Len(q) :
     Upper(q[p]) = "FROM" /\ q[p - 1] \in Ws /\ (p > SkipWs(q, i + 1) \/ p > i + 2)}

SelectStarts(q) ==
  {i \in 1..(Len(q) - 1) : Upper(q[i]) = "SELECT" /\ q[i + 1] \in Ws /\ FromAfter(q, i) # {}}

\* the stripped group 1 of that match
ColsTxt(q) ==
  LET i == Min(SelectStarts(q))
  IN Strip(SubSeq(q, SkipWs(q, i + 1), Min(FromAfter(q, i)) - 1), Ws)

NoMatch == [ok |-> FALSE]

\* \s+(\w+) behind position e: where the word starts, 0 when there is none
WordAfter(q, e) ==
  LET n == SkipWs(q, e + 1)
  IN IF n > e + 1 /\ n <= Len(q) /\ IsWord(q[n]) THEN n ELSE 0

\* \s+<word>\s+ behind position e: where the word stands, 0 when it does not
KeywordAfter(q, e, word) ==
  LET n == SkipWs(q, e + 1)
  IN IF n > e + 1 /\ n < Len(q) /\ Upper(q[n]) = word /\ q[n + 1] \in Ws THEN n ELSE 0

\* (\w+)\.(\w+) at position i
QualifiedAt(q, i) ==
  LET Column(g) ==
        IF g + 2 <= Len(q) /\ q[g + 1] = "." /\ IsWord(q[g + 2])
        THEN [ok |-> TRUE, t |-> SubSeq(q, i, g), c |-> SubSeq(q, g + 2, WordRunEnd(q, g + 2)),
              last |-> WordRunEnd(q, g + 2)]
        ELSE NoMatch
  IN IF i >= 1 /\ i <= Len(q) /\ IsWord(q[i]) THEN Column(WordRunEnd(q, i)) ELSE NoMatch

\* \s*;?$ at position p
JoinEnd(q, p) == SkipWs(q, p) > Len(q) \/ (SkipWs(q, p) = Len(q) /\ q[Len(q)] = ";")

\* (?:\s+LIMIT\s+(?P<limit>\d+))?\s*;?$ behind position y
LimitTail(q, y) ==
  LET Number(d) ==
        IF d <= Len(q) /\ IsDigit(q[d]) /\ JoinEnd(q, DigitsEnd(q, d))
        THEN [ok |-> TRUE, limit |-> SubSeq(q, d, DigitsEnd(q, d) - 1)]
        ELSE IF JoinEnd(q, y + 1) THEN [ok |-> TRUE, limit |-> <<>>] ELSE NoMatch
      Limit(n) ==
        IF n > 0 THEN Number(SkipWs(q, n + 1))
        ELSE IF JoinEnd(q, y + 1) THEN [ok |-> TRUE, limit |-> <<>>] ELSE NoMatch
  IN Limit(KeywordAfter(q, y, "LIMIT"))

\* the lazy (?P<order>.*?) that starts at from: the first end behind which
\* the rest of the pattern matches
OrderEnd(q, from) == Min({y \in (from - 1)..Len(q) : LimitTail(q, y).ok})

\* \s+ORDER\s+BY\s+ behind position x: where the order text starts, 0 when
\* the words are not there
OrderFrom(q, x) ==
  LET From(b) == IF b > 0 THEN SkipWs(q, b + 1) ELSE 0
      By(n) == From(IF n > 0 THEN KeywordAfter(q, n, "BY") ELSE 0)
  IN By(KeywordAfter(q, x, "ORDER"))

\* the groups of an order text from..y and of the tail t behind it
OrderRecord(q, from, y, t) ==
  IF t.ok
  THEN [ok |-> TRUE, order |-> IF from > 0 THEN SubSeq(q, from, y) ELSE <<>>, limit |-> t.limit]
  ELSE NoMatch

OrderEnded(q, from, y) == OrderRecord(q, from, y, LimitTail(q, y))

\* (?:\s+ORDER\s+BY\s+(?P<order>.*?))? and what follows, behind position x
OrderTail(q, x) ==
  OrderEnded(q, OrderFrom(q, x), IF OrderFrom(q, x) > 0 THEN OrderEnd(q, OrderFrom(q, x)) ELSE x)

\* the lazy (?P<where>.*?) that starts at from
WhereEnd(q, from) == Min({x \in (from - 1)..Len(q) : OrderTail(q, x).ok})

\* \s+WHERE\s+ behind position e: where the condition text starts, 0 when the
\* word is not there
WhereFrom(q, e) ==
  LET From(n) == IF n > 0 THEN SkipWs(q, n + 1) ELSE 0
  IN From(KeywordAfter(q, e, "WHERE"))

\* the groups of a condition text from..x and of the tail t behind it
WhereRecord(q, from, x, t) ==
  IF t.ok
  THEN [ok |-> TRUE, where |-> IF from > 0 THEN SubSeq(q, from, x) ELSE <<>>,
        order |-> t.order, limit |-> t.limit]
  ELSE NoMatch

WhereOrdered(q, from, x) == WhereRecord(q, from, x, OrderTail(q, x))

WhereEnded(q, e, from) == WhereOrdered(q, from, IF from > 0 THEN WhereEnd(q, from) ELSE e)

\* (?:\s+WHERE\s+(?P<where>.*?))? and what follows, behind position e
WhereTail(q, e) == WhereEnded(q, e, WhereFrom(q, e))

\* FROM\s+(\w+)(?:\s+(\w+))?\s+JOIN\s+(\w+)(?:\s+(\w+))?\s+ON\s+
\* (\w+)\.(\w+)\s*=\s*(\w+)\.(\w+) behind the FROM at p, with (a1, a2) and
\* without the two aliases; last is where the right column ends
JoinHead(q, p, a1, a2) ==
  LET Right(tbl1, alias1, tbl2, alias2, left, right) ==
        IF right.ok
        THEN [ok |-> TRUE, tbl1 |-> tbl1, alias1 |-> alias1, tbl2 |-> tbl2, alias2 |-> alias2,
              t1 |-> left.t, c1 |-> left.c, t2 |-> right.t, c2 |-> right.c, last |-> right.last]
        ELSE NoMatch
      Left(tbl1, alias1, tbl2, alias2, left) ==
        IF left.ok /\ SkipWs(q, left.last + 1) <= Len(q) /\ q[SkipWs(q, left.last + 1)] = "="
        THEN Right(tbl1, alias1, tbl2, alias2, left,
                   QualifiedAt(q, SkipWs(q, SkipWs(q, left.last + 1) + 1)))
        ELSE NoMatch
      On(tbl1, alias1, tbl2, alias2, o) ==
        IF o > 0 THEN Left(tbl1, alias1, tbl2, alias2, QualifiedAt(q, SkipWs(q, o + 1))) ELSE NoMatch
      Alias2(tbl1, alias1, c, d) ==
        IF a2 /\ d = 0 THEN NoMatch
        ELSE On(tbl1, alias1, SubSeq(q, c, WordRunEnd(q, c)),
                IF a2 THEN SubSeq(q, d, WordRunEnd(q, d)) ELSE SubSeq(q, c, WordRunEnd(q, c)),
                KeywordAfter(q, IF a2 THEN WordRunEnd(q, d) ELSE WordRunEnd(q, c), "ON"))
      Table2(tbl1, alias1, c) ==
        IF c = 0 THEN NoMatch ELSE Alias2(tbl1, alias1, c, WordAfter(q, WordRunEnd(q, c)))
      Joined(tbl1, alias1, j) == IF j = 0 THEN NoMatch ELSE Table2(tbl1, alias1, WordAfter(q, j))
      Alias1(a, b) ==
        IF a1 /\ b = 0 THEN NoMatch
        ELSE Joined(SubSeq(q, a, WordRunEnd(q, a)),
                    IF a1 THEN SubSeq(q, b, WordRunEnd(q, b)) ELSE SubSeq(q, a, WordRunEnd(q, a)),
                    KeywordAfter(q, IF a1 THEN WordRunEnd(q, b) ELSE WordRunEnd(q, a), "JOIN"))
      Table1(a) == IF a = 0 THEN NoMatch ELSE Alias1(a, WordAfter(q, WordRunEnd(q, a)))
  IN Table1(WordAfter(q, p))

\* the groups of a match: the column text before the FROM at p, the head h
\* and the tail t
JoinRecord(q, p, h, t) ==
  IF t.ok
  THEN [ok |-> TRUE, cols |-> Strip(SubSeq(q, SkipWs(q, 2), p - 1), Ws),
        tbl1 |-> h.tbl1, alias1 |-> h.alias1, tbl2 |-> h.tbl2, alias2 |-> h.alias2,
        t1 |-> h.t1, c1 |-> h.c1, t2 |-> h.t2, c2 |-> h.c2,
        where |-> t.where, order |-> t.order, limit |-> t.limit]
  ELSE NoMatch

JoinTailed(q, p, h) == IF h.ok THEN JoinRecord(q, p, h, WhereTail(q, h.last)) ELSE NoMatch

\* the pattern of _handle_join_query behind the FROM at p, with and without
\* the two aliases
JoinTry(q, p, a1, a2) == JoinTailed(q, p, JoinHead(q, p, a1, a2))

\* the first of the attempts f that matches
FirstMatch(f) ==
  IF {k \in DOMAIN f : f[k].ok} = {} THEN NoMatch ELSE f[Min({k \in DOMAIN f : f[k].ok})]

\* the attempts behind one FROM: an alias is taken before it is left out
JoinAt(q, p) == FirstMatch([k \in 1..4 |-> JoinTry(q, p, k \in {1, 2}, k \in {1, 3})])

\* pattern.match(q): the first match in the order the engine tries them: the
\* shortest column text first
JoinMatch(q) ==
  IF Len(q) >= 2 /\ Upper(q[1]) = "SELECT" /\ q[2] \in Ws
  THEN FirstMatch([p \in FromAfter(q, 1) |-> JoinAt(q, p)])
  ELSE NoMatch

\* the key of one column of the $project stage
ProjectKey(col, m) ==
  LET d == Find(col, <<".">>, 1)
  IN IF d > 0
     THEN (IF SubSeq(col, 1, d - 1) = m.alias1 THEN m.tbl1 ELSE m.tbl2)
          \o <<".">> \o SubSeq(col, d + 1, Len(col))
     ELSE m.tbl1 \o <<".">> \o col

\* a $lookup stage that names the joined table where its alias belongs
JoinLookupByName(m) ==
  D1(Op("lookup"),
     VDict(<<Item(<<"from">>, VStr(m.tbl2)), Item(<<"localField">>, VStr(m.c1)),
             Item(<<"foreignField">>, VStr(m.c2)), Item(<<"as">>, VStr(m.tbl2))>>))

\* the $lookup stage of a match
JoinLookup(m) ==
  D1(Op("lookup"),
     VDict(<<Item(<<"from">>, VStr(m.tbl2)), Item(<<"localField">>, VStr(m.c1)),
             Item(<<"foreignField">>, VStr(m.c2)), Item(<<"as">>, VStr(m.alias2))>>))

\* _handle_join_query and the formatting of its pipeline by _handle_select
HandleJoinQuery(q0) ==
  LET Formatted(tbl1, pipeline) ==
        Done(Ret(FormatMongoAggregate(tbl1, pipeline)),
             [NoIR EXCEPT !.op = "aggregate", !.call = "aggregate", !.collection = tbl1,
                          !.pipeline = VList(pipeline)])
      Stages(m, cols) ==
        Formatted(m.tbl1,
          <<JoinLookup(m), D1(Op("unwind"), VStr(<<"$">> \o m.alias2))>>
          \o (IF Len(m.where) > 0 THEN <<D1(Op("match"), ParseWhereConditions(m.where))>> ELSE <<>>)
          \o (IF cols # <<<<"*">>>>
              THEN <<D1(Op("project"),
                        VDict(DictOf(<<>>, [i \in 1..Len(cols) |->
                                              Item(ProjectKey(cols[i], m), VInt(1))], 1)))>>
              ELSE <<>>)
          \o (IF Len(m.order) > 0
              THEN <<D1(Op("sort"), VDict(DictOf(<<>>, ParseOrderBy([text |-> m.order]), 1)))>>
              ELSE <<>>)
          \o (IF Len(m.limit) > 0 THEN <<D1(Op("limit"), VInt(PyInt(m.limit)))>> ELSE <<>>))
      Matched(m) ==
        IF ~m.ok THEN Done(Err("SyntaxError"), NoIR)
        ELSE Stages(m, StripAll(Split(m.cols, <<",">>)))
  IN Matched(JoinMatch(Strip(q0, Ws)))

\* _handle_select
HandleSelect(statement, q) ==
  LET cols_txt == IF SelectStarts(q) = {} THEN <<>> ELSE ColsTxt(q)
      Built(p, mongo_query) ==
        IF Len(p.columns) = 0 \/ \A i \in 1..Len(p.columns) : Len(p.columns[i]) = 0
          THEN Done(Err("SyntaxError"), NoIR)
        ELSE IF p.table_name = VNull \/ Len(p.table_name.v) = 0 THEN Done(Err("ValueError"), NoIR)
        ELSE IF Len(p.group_by) > 0
          THEN Done(Ret(FormatMongoAggregate(mongo_query.collection, <<mongo_query.group>>)), mongo_query)
        ELSE Done(Ret(FormatMongoFind(mongo_query)), mongo_query)
      Parsed(p) ==
        Built(p, BuildMongoQuery(IF p.table_name = VNull THEN <<>> ELSE p.table_name.v,
                                 p.columns, p.where_clause, p.order_by, p.group_by, p.limit_val))
  IN IF HasJoin(q) THEN HandleJoinQuery(q)
     ELSE IF Len(cols_txt) > 0 /\ cols_txt # <<"*">> /\ ~Contains(cols_txt, <<",">>)
             /\ Len(SplitWs(cols_txt, -1)) > 1
       THEN Done(Err("SyntaxError"), NoIR)
     ELSE Parsed(ParseSelectStatement(statement))

----------------------------------------------------------------------------
(* sql_to_mongo: DELETE, UPDATE and INSERT, which match the query text *)

\* (?:\s*;)?$ at position p
EndOk(q, p) == p > Len(q) \/ (q[Len(q)] = ";" /\ SkipWs(q, p) = Len(q))

\* \s+WHERE\s+ at position p: where the condition text starts, 0 for no match
WhereStart(q, p) ==
  LET w == SkipWs(q, p)
  IN IF p <= Len(q) /\ q[p] \in Ws /\ w < Len(q) /\ Upper(q[w]) = "WHERE" /\ q[w + 1] \in Ws
     THEN (IF SkipWs(q, w + 1) <= Len(q) THEN SkipWs(q, w + 1)
           ELSE IF Len(q) >= w + 2 THEN Len(q) ELSE 0)
     ELSE 0

\* (?:\s+WHERE\s+(.+?))?(?:\s*;)?$ at position p
ClauseTailOk(q, p) == WhereStart(q, p) # 0 \/ EndOk(q, p)

\* the (.+?) behind WHERE: the shortest text after which the end matches
WhereGroup(q, p) ==
  LET From(b) ==
        IF b = 0 THEN NoGroup
        ELSE Group(SubSeq(q, b, Min({e \in b..Len(q) : EndOk(q, e + 1)})), Len(q) + 1)
  IN From(WhereStart(q, p))

\* <word>\s+<word>\s+ at i, the words in either case: the position behind, or 0
TwoWords(q, i, w1, w2) ==
  LET j == SkipWs(q, i + 1)
  IN IF i + 3 <= Len(q) /\ Upper(q[i]) = w1 /\ q[i + 1] \in Ws /\ j < Len(q)
        /\ Upper(q[j]) = w2 /\ q[j + 1] \in Ws /\ SkipWs(q, j + 1) <= Len(q)
     THEN SkipWs(q, j + 1) ELSE 0

SqlDeleteStarts(q) ==
  {i \in 1..Len(q) :
     LET n == TwoWords(q, i, "DELETE", "FROM")
     IN n # 0 /\ IsWord(q[n]) /\ ClauseTailOk(q, WordRunEnd(q, n) + 1)}

\* delete_pattern.search(sql_query)
SqlDeleteMatch(q) ==
  LET Table(n, e) ==
        [table_name |-> SubSeq(q, n, e), where_clause |-> WhereGroup(q, e + 1)]
      From(n) == Table(n, WordRunEnd(q, n))
  IN From(TwoWords(q, Min(SqlDeleteStarts(q)), "DELETE", "FROM"))

\* _handle_delete
SqlHandleDelete(q) ==
  LET Command(filter_query) ==
        IF Truthy(filter_query) /\ HasKey(filter_query.v, <<"_id">>) THEN "deleteOne" ELSE "deleteMany"
      Delete(table_name, filter_query, delete_command) ==
        Done(Ret(<<"db", ".">> \o table_name \o <<".", delete_command, "(">>
                 \o FormatJson(filter_query) \o <<")">>),
             [NoIR EXCEPT !.op = "delete", !.call = delete_command,
                          !.collection = table_name, !.find = filter_query])
      Filtered(m, filter_query) == Delete(m.table_name, filter_query, Command(filter_query))
      Matched(m) ==
        Filtered(m, IF m.where_clause.has /\ Len(m.where_clause.text) > 0
                    THEN ParseWhereConditions(m.where_clause.text) ELSE VDict(<<>>))
      Searched(starts) ==
        IF starts = {} THEN Done(Err("SyntaxError"), NoIR) ELSE Matched(SqlDeleteMatch(q))
  IN Searched(SqlDeleteStarts(q))

\* UPDATE\s+(\w+)\s+SET\s+ at i: where the SET clause starts, or 0
UpdateHead(q, i) ==
  LET n == SkipWs(q, i + 1)
      e == WordRunEnd(q, n)
      k == SkipWs(q, e + 1)
  IN IF i < Len(q) /\ Upper(q[i]) = "UPDATE" /\ q[i + 1] \in Ws /\ n <= Len(q) /\ IsWord(q[n])
        /\ e + 3 <= Len(q) /\ q[e + 1] \in Ws /\ k < Len(q) /\ Upper(q[k]) = "SET"
        /\ q[k + 1] \in Ws /\ SkipWs(q, k + 1) <= Len(q)
     THEN SkipWs(q, k + 1) ELSE 0

SqlUpdateStarts(q) == {i \in 1..Len(q) : UpdateHead(q, i) # 0}

\* update_pattern.search(sql_query): the SET clause is the shortest text after
\* which WHERE or the end matches
SqlUpdateMatch(q) ==
  LET Set(n, b, e) ==
        [table_name |-> SubSeq(q, n, WordRunEnd(q, n)), set_clause |-> SubSeq(q, b, e),
         where_clause |-> WhereGroup(q, e + 1)]
      Clause(i, b) == Set(SkipWs(q, i + 1), b, Min({x \in b..Len(q) : ClauseTailOk(q, x + 1)}))
      At(i) == Clause(i, UpdateHead(q, i))
  IN At(Min(SqlUpdateStarts(q)))

\* one assignment of the SET clause: item.split('=', 1)
Assignment(item) ==
  LET c == Find(item, <<"=">>, 1)
  IN Item(Strip(SubSeq(item, 1, c - 1), Ws), ParseSqlValue(Strip(SubSeq(item, c + 1, Len(item)), Ws)))

\* _handle_update
SqlHandleUpdate(q) ==
  LET Update(table_name, filter_query, set_items) ==
        Done(Ret(<<"db", ".">> \o table_name \o <<".", "updateMany", "(">>
                 \o FormatJson(filter_query)
                 \o <<",", " ", "{", "'", "$", "set", "'", ":", " ">>
                 \o FormatJson(set_items) \o <<"}", ")">>),
             [NoIR EXCEPT !.op = "update", !.call = "updateMany",
                          !.collection = table_name, !.find = filter_query,
                          !.set = set_items])
      Assigned(m, items) ==
        IF \E i \in 1..Len(items) : ~Contains(items[i], <<"=">>)
          THEN Done(Err("SyntaxError"), NoIR)
        ELSE Update(m.table_name,
                    IF m.where_clause.has /\ Len(m.where_clause.text) > 0
                    THEN ParseWhereConditions(m.where_clause.text) ELSE VDict(<<>>),
                    VDict(DictOf(<<>>, [i \in 1..Len(items) |-> Assignment(items[i])], 1)))
      Matched(m) == Assigned(m, Split(Strip(m.set_clause, Ws), <<",">>))
      Searched(starts) ==
        IF starts = {} THEN Done(Err("SyntaxError"), NoIR) ELSE Matched(SqlUpdateMatch(q))
  IN Searched(SqlUpdateStarts(q))

\* INSERT\s+INTO\s+(\w+)\s* at i: the position behind, or 0
InsertHead(q, i) ==
  LET n == TwoWords(q, i, "INSERT", "INTO")
  IN IF n # 0 /\ IsWord(q[n]) THEN SkipWs(q, WordRunEnd(q, n) + 1) ELSE 0

\* \(([^)]+)\) at p: the position of the closing parenthesis, or 0
PlainGroupEnd(q, p) ==
  IF p <= Len(q) /\ q[p] = "(" /\ Find(q, <<")">>, p + 1) > p + 1 THEN Find(q, <<")">>, p + 1) ELSE 0

\* \s*VALUES\s* at p: the position behind, or 0
ValuesWord(q, p) ==
  LET v == SkipWs(q, p)
  IN IF v <= Len(q) /\ Upper(q[v]) = "VALUES" THEN SkipWs(q, v + 1) ELSE 0

RECURSIVE NestedGroupClose(_, _)
\* (?:[^)(]+|\([^)(]*\))*\) from j on: the position of the closing parenthesis, or 0
NestedGroupClose(q, j) ==
  IF j > Len(q) THEN 0
  ELSE IF q[j] = ")" THEN j
  ELSE IF q[j] = "(" THEN
    LET S == {k \in (j + 1)..Len(q) : q[k] \in {"(", ")"}}
    IN IF S # {} /\ q[Min(S)] = ")" THEN NestedGroupClose(q, Min(S) + 1) ELSE 0
  ELSE NestedGroupClose(q, j + 1)

\* a parenthesised row at p, one level of nesting allowed: its end, or 0
RowEnd(q, p) == IF p <= Len(q) /\ q[p] = "(" THEN NestedGroupClose(q, p + 1) ELSE 0

RECURSIVE RowsEnd(_, _)
\* (?:\s*,\s*<row>)* behind the row that ends at e: the end of the last row
RowsEnd(q, e) ==
  LET c == SkipWs(q, e + 1)
      n == IF c <= Len(q) /\ q[c] = "," THEN RowEnd(q, SkipWs(q, c + 1)) ELSE 0
  IN IF n # 0 THEN RowsEnd(q, n) ELSE e

\* where the column group opens for the INSERT head at i, or 0
ColsOpen(q, i) ==
  LET Open(h) == IF h # 0 /\ PlainGroupEnd(q, h) # 0 THEN h ELSE 0
  IN Open(InsertHead(q, i))

\* where the rows start behind the column group and VALUES, or 0
RowsOpen(q, i) ==
  LET Behind(o) == IF o = 0 THEN 0 ELSE ValuesWord(q, PlainGroupEnd(q, o) + 1)
  IN Behind(ColsOpen(q, i))

MultiStarts(q) ==
  {i \in 1..Len(q) : LET Row(r) == r # 0 /\ RowEnd(q, r) # 0 IN Row(RowsOpen(q, i))}
SingleStarts(q) ==
  {i \in 1..Len(q) : LET Row(r) == r # 0 /\ PlainGroupEnd(q, r) # 0 IN Row(RowsOpen(q, i))}
SimpleStarts(q) ==
  {i \in 1..Len(q) :
     LET Row(r) == r # 0 /\ PlainGroupEnd(q, r) # 0
         Word(h) == h # 0 /\ Row(ValuesWord(q, h))
     IN Word(InsertHead(q, i))}

TableAt(q, i) == LET n == TwoWords(q, i, "INSERT", "INTO") IN SubSeq(q, n, WordRunEnd(q, n))
ColumnsAt(q, i) ==
  LET Names(o) == StripAll(Split(SubSeq(q, o + 1, PlainGroupEnd(q, o) - 1), <<",">>))
  IN Names(ColsOpen(q, i))

RECURSIVE FindAllGroups(_, _)
\* re.findall(r'\(([^)]+)\)', block), from position p on
FindAllGroups(block, p) ==
  LET Closed(o, c) ==
        IF o = 0 \/ c = 0 THEN <<>>
        ELSE IF c = o + 1 THEN FindAllGroups(block, o + 1)
        ELSE <<SubSeq(block, o + 1, c - 1)>> \o FindAllGroups(block, c + 1)
      Opened(o) == Closed(o, IF o = 0 THEN 0 ELSE Find(block, <<")">>, o + 1))
  IN Opened(Find(block, <<"(">>, p))

\* the values of one row text
RowValues(value_set) ==
  LET Values(parts) == [i \in 1..Len(parts) |-> ParseSqlValue(Strip(parts[i], Ws))]
  IN Values(Split(value_set, <<",">>))

\* dict(zip(columns, values))
Zip(columns, values) ==
  DictOf(<<>>, [i \in 1..(IF Len(columns) < Len(values) THEN Len(columns) ELSE Len(values)) |->
                  Item(columns[i], values[i])], 1)

InsertOne(table_name, document) ==
  Done(Ret(<<"db", ".">> \o table_name \o <<".", "insertOne", "(">> \o FormatJson(document) \o <<")">>),
       [NoIR EXCEPT !.op = "insert", !.call = "insertOne", !.collection = table_name,
                    !.docs = <<document>>])

\* the value groups of a multi-row INSERT whose pattern matches at i
ValueSets(q, i) ==
  FindAllGroups(SubSeq(q, RowsOpen(q, i), RowsEnd(q, RowEnd(q, RowsOpen(q, i)))), 1)

\* the multi-row branch: one document answers insertOne, several insertMany
SqlInsertMany(table_name, documents) ==
  IF Len(documents) = 1 THEN InsertOne(table_name, documents[1])
  ELSE Done(Ret(<<"db", ".">> \o table_name \o <<".", "insertMany", "(">>
                \o FormatJson(VList(documents)) \o <<")">>),
            [NoIR EXCEPT !.op = "insert", !.call = "insertMany",
                         !.collection = table_name, !.docs = documents])

SqlInsertCounted(q, i, columns, rows) ==
  IF \E k \in 1..Len(rows) : Len(rows[k]) # Len(columns) THEN Done(Err("ValueError"), NoIR)
  ELSE SqlInsertMany(TableAt(q, i), [k \in 1..Len(rows) |-> VDict(Zip(columns, rows[k]))])

SqlInsertMulti(q, i) ==
  SqlInsertCounted(q, i, ColumnsAt(q, i),
                   [k \in 1..Len(ValueSets(q, i)) |-> RowValues(ValueSets(q, i)[k])])

\* the single-row branch
SqlInsertRow(q, i, columns, values) ==
  IF Len(values) # Len(columns) THEN Done(Err("ValueError"), NoIR)
  ELSE InsertOne(TableAt(q, i), VDict(Zip(columns, values)))

SqlInsertSingle(q, i) ==
  SqlInsertRow(q, i, ColumnsAt(q, i),
               RowValues(SubSeq(q, RowsOpen(q, i) + 1, PlainGroupEnd(q, RowsOpen(q, i)) - 1)))

\* the branch without a column list: the fields are named field1, field2, ...
SqlInsertFields(q, i, values) ==
  InsertOne(TableAt(q, i),
            VDict([k \in 1..Len(values) |-> Item(<<"field">> \o Str(k), values[k])]))

SqlInsertSimple(q, i) ==
  SqlInsertFields(q, i,
                  RowValues(SubSeq(q, ValuesWord(q, InsertHead(q, i)) + 1,
                                   PlainGroupEnd(q, ValuesWord(q, InsertHead(q, i))) - 1)))

\* _handle_insert
SqlHandleInsert(q) ==
  IF MultiStarts(q) # {} THEN SqlInsertMulti(q, Min(MultiStarts(q)))
  ELSE IF SingleStarts(q) # {} THEN SqlInsertSingle(q, Min(SingleStarts(q)))
  ELSE IF SimpleStarts(q) # {} THEN SqlInsertSimple(q, Min(SimpleStarts(q)))
  ELSE Done(Err("SyntaxError"), NoIR)

\* a router without the statement count: it routes the first statement of the
\* text whatever follows it
SqlHandlerFirst(q) ==
  LET parsed == SqlParse(q)
  IN IF Len(parsed) = 0 THEN "reject"
     ELSE IF GetType(parsed[1]) \in DMLWords THEN GetType(parsed[1])
     ELSE "unsupported"

\* the statement handler sql_to_mongo routes to
SqlHandler(q) ==
  LET parsed == SqlParse(q)
  IN IF Len(parsed) # 1 THEN "reject"
     ELSE IF GetType(parsed[1]) \in DMLWords THEN GetType(parsed[1])
     ELSE "unsupported"

----------------------------------------------------------------------------
(* The SQL requests of the model *)

MaxConds == 2      \* the most conditions in a WHERE clause
MaxRows == 2       \* the most rows of an INSERT
MaxStmts == 2      \* the most statements in one text

Cond(f, op, lit) == [f |-> f, op |-> op, lit |-> lit]

QuotedOB == <<"'", "O", "'", "'", "B", "'">>

Conds ==
  {Cond(<<"_id">>, <<"=">>, <<"5">>), Cond(<<"_id">>, <<">">>, <<"5">>),
   Cond(<<"age">>, <<">">>, <<"1", "0">>), Cond(<<"age">>, <<"<">>, <<"2", "0">>),
   Cond(<<"name">>, <<"=">>, QuotedOB)}

Wheres == SeqsUpTo(Conds, MaxConds)

Rows == {<<>>, <<<<"1">>>>, <<<<"1">>, <<"2">>>>, <<<<"'", "x", ",", "y", "'">>, <<"2">>>>}
ColumnLists == {<<<<"a">>>>, <<<<"a">>, <<"b">>>>}

FIsOne == Cond(<<"f">>, <<"=">>, <<"1">>)

\* one comparison of f with each kind of literal: an integer, a float, quoted
\* text, the keywords and a bare word
TypedLiterals ==
  {<<"3", "0">>, <<"1", ".", "5">>, <<"'", "x", "'">>, <<"'", "3", "0", "'">>,
   <<"NULL">>, <<"TRUE">>, <<"x">>}
TypedWheres ==
  {<<Cond(<<"f">>, op, lit)>> : op \in {<<"=">>, <<">">>, <<"<", "=">>}, lit \in TypedLiterals}

\* SELECT statements with GROUP BY: one and two keys, with and without a
\* WHERE, an ORDER BY and a LIMIT
GroupSelects ==
  {[NoStmt EXCEPT !.verb = "SELECT", !.cols = g \o <<<<"COUNT(*)">>>>, !.group = g,
                  !.where = w, !.order = o, !.limit = l] :
     g \in {<<<<"f">>>>, <<<<"f">>, <<"g">>>>}, w \in {<<>>, <<FIsOne>>},
     o \in {<<>>, <<"f">>}, l \in {-1, MaxN}}

\* conjuncts that are no supported triple: an operator outside =, >, <, >=, <=,
\* and fewer than three whitespace-separated tokens (a bare column, a
\* comparison written without spaces)
Unsupported ==
  {Cond(<<"f">>, <<"!", "=">>, <<"1">>), Cond(<<"f">>, <<"<", ">">>, <<"1">>),
   Cond(<<"name">>, <<"LIKE">>, <<"'", "x", "'">>),
   Cond(<<"active">>, <<>>, <<>>), Cond(<<"g", "=", "2">>, <<>>, <<>>)}
UnsupportedWheres ==
  UNION {{<<c>>, <<FIsOne, c>>, <<c, FIsOne>>} : c \in Unsupported}

\* plain SELECT statements with every clause present or not
PlainSelects ==
  {[NoStmt EXCEPT !.verb = "SELECT", !.cols = c, !.where = w, !.order = o, !.limit = l] :
     c \in {<<<<"*">>>>, <<<<"age">>, <<"name">>>>}, w \in {<<>>, <<FIsOne>>},
     o \in {<<>>, <<"f">>}, l \in {-1, MaxN}}

\* the name a table goes by in the statement
Named(s, table, alias) == IF Len(alias) > 0 THEN alias ELSE table

\* SELECT statements with one JOIN: with and without aliases and INNER, with
\* the wildcard, a bare and two qualified columns, with and without a WHERE,
\* an ORDER BY and a LIMIT
JoinSelects ==
  {[NoStmt EXCEPT !.verb = "SELECT", !.join = j, !.cols = c, !.where = w, !.order = o, !.limit = l] :
     j \in {[has |-> TRUE, inner |-> i, alias1 |-> a[1], alias2 |-> a[2], flipped |-> FALSE] :
              i \in BOOLEAN, a \in {<<<<>>, <<>>>>, <<<<"x">>, <<"y">>>>, <<<<>>, <<"y">>>>}},
     c \in {<<<<"*">>>>, <<<<"f">>>>, <<<<"c", ".", "f">>, <<"d", ".", "g">>>>},
     w \in {<<>>, <<FIsOne>>}, o \in {<<>>, <<"f">>}, l \in {-1, MaxN}}

\* the same JOIN with the sides of the ON equality exchanged: ON d.g = c.f
FlippedJoins ==
  {[NoStmt EXCEPT !.verb = "SELECT", !.cols = <<<<"*">>>>, !.where = w,
                  !.join = [has |-> TRUE, inner |-> FALSE, alias1 |-> a[1], alias2 |-> a[2],
                            flipped |-> TRUE]] :
     a \in {<<<<>>, <<>>>>, <<<<"x">>, <<"y">>>>}, w \in {<<>>, <<FIsOne>>}}

SqlStmts ==
  {[NoStmt EXCEPT !.verb = v, !.cols = c, !.where = w, !.conn = k] :
     v \in {"SELECT", "DELETE"}, c \in {<<<<"*">>>>}, w \in Wheres, k \in {"AND", "OR"}}
  \cup {[NoStmt EXCEPT !.verb = "SELECT", !.cols = c, !.where = w] :
          c \in {<<<<"name">>, <<"age">>>>, <<<<"name">>>>},
          w \in {w \in Wheres : Len(w) <= 1}}
  \cup {[NoStmt EXCEPT !.verb = "SELECT", !.cols = <<<<"*">>>>, !.limit = l, !.skip = k] :
          l \in 0..MaxN, k \in Counts}
  \cup {[NoStmt EXCEPT !.verb = "UPDATE", !.where = w] : w \in {w \in Wheres : Len(w) <= 1}}
  \cup {[NoStmt EXCEPT !.verb = "INSERT", !.cols = c, !.rows = r] :
          c \in ColumnLists, r \in SeqsUpTo(Rows, MaxRows) \ {<<>>}}
  \cup {[NoStmt EXCEPT !.verb = "SELECT", !.cols = <<<<"*">>>>, !.where = w] : w \in TypedWheres}
  \cup PlainSelects
  \cup {[NoStmt EXCEPT !.verb = "SELECT", !.cols = <<<<"*">>>>, !.where = w] :
          w \in UnsupportedWheres}
  \cup GroupSelects
  \cup JoinSelects
  \cup FlippedJoins
  \cup {[NoStmt EXCEPT !.verb = "DROP"]}

\* a condition without an operator is written as its first part alone
ShowCond(c) == IF Len(c.op) = 0 THEN c.f ELSE c.f \o <<" ">> \o c.op \o <<" ">> \o c.lit

ShowWhere(s) ==
  IF Len(s.where) = 0 THEN <<>>
  ELSE <<" ", "WHERE", " ">>
       \o Join([i \in 1..Len(s.where) |-> ShowCond(s.where[i])], <<" ", s.conn, " ">>)

ShowRow(r) == <<"(">> \o Join(r, <<",", " ">>) \o <<")">>

\* the two sides of the ON equality: <c or alias1>.f and <d or alias2>.g
OnPrimary(s) == Named(s, s.coll, s.join.alias1) \o <<".", "f">>
OnJoined(s) == Named(s, <<"d">>, s.join.alias2) \o <<".", "g">>

\* [ <alias1>] [INNER ]JOIN d[ <alias2>] ON <one side> = <the other side>
ShowJoin(s) ==
  IF ~s.join.has THEN <<>>
  ELSE (IF Len(s.join.alias1) > 0 THEN <<" ">> \o s.join.alias1 ELSE <<>>)
       \o (IF s.join.inner THEN <<" ", "INNER">> ELSE <<>>)
       \o <<" ", "JOIN", " ", "d">>
       \o (IF Len(s.join.alias2) > 0 THEN <<" ">> \o s.join.alias2 ELSE <<>>)
       \o <<" ", "ON", " ">> \o (IF s.join.flipped THEN OnJoined(s) ELSE OnPrimary(s))
       \o <<" ", "=", " ">> \o (IF s.join.flipped THEN OnPrimary(s) ELSE OnJoined(s))

\* one statement, without its semicolon
ShowSql(s) ==
  CASE s.verb = "SELECT" ->
         <<"SELECT", " ">> \o Join(s.cols, <<",", " ">>) \o <<" ", "FROM", " ">> \o s.coll
         \o ShowJoin(s)
         \o ShowWhere(s)
         \o (IF Len(s.group) > 0
             THEN <<" ", "GROUP", " ", "BY", " ">> \o Join(s.group, <<",", " ">>) ELSE <<>>)
         \o (IF Len(s.order) > 0 THEN <<" ", "ORDER", " ", "BY", " ">> \o s.order ELSE <<>>)
         \o (IF s.limit >= 0 THEN <<" ", "LIMIT", " ">> \o Str(s.limit) ELSE <<>>)
         \o (IF s.limit >= 0 /\ s.skip >= 0 THEN <<" ", "OFFSET", " ">> \o Str(s.skip) ELSE <<>>)
    [] s.verb = "DELETE" -> <<"DELETE", " ", "FROM", " ">> \o s.coll \o ShowWhere(s)
    [] s.verb = "UPDATE" ->
         <<"UPDATE", " ">> \o s.coll \o <<" ", "SET", " ", "g", " ", "=", " ", "1">> \o ShowWhere(s)
    [] s.verb = "INSERT" ->
         <<"INSERT", " ", "INTO", " ">> \o s.coll \o <<" ">> \o ShowRow(s.cols)
         \o <<" ", "VALUES", " ">> \o Join([i \in 1..Len(s.rows) |-> ShowRow(s.rows[i])], <<",", " ">>)
    [] s.verb = "DROP" -> <<"DROP", " ", "TABLE", " ">> \o s.coll

\* the statements a text of several statements is made of
Plain == {[NoStmt EXCEPT !.verb = v, !.cols = <<<<"*">>>>] : v \in {"SELECT", "DELETE"}}

\* a request: the statements of the text, and whether the last one is closed
\* by a semicolon
Request(l, stmts, semi) == [lang |-> l, stmts |-> stmts, semi |-> semi]

Requests ==
  {Request("mongo", <<s>>, FALSE) : s \in MongoStmts}
  \cup {Request("sql", <<s>>, semi) : s \in SqlStmts, semi \in BOOLEAN}
  \cup {Request("sql", ss, semi) : ss \in SeqsUpTo(Plain, MaxStmts) \ {<<>>}, semi \in BOOLEAN}
  \cup {Request("sql", <<>>, FALSE)}

\* the text of a request
Show(r) ==
  IF r.lang = "mongo" THEN ShowMongo(r.stmts[1])
  ELSE Join([i \in 1..Len(r.stmts) |-> ShowSql(r.stmts[i])], <<";", " ">>)
       \o (IF r.semi THEN <<";">> ELSE <<>>)

----------------------------------------------------------------------------
(* The translator as a state machine: a text is handed to one converter, the  *)
(* handler it is routed to answers, and the answer may be handed to the       *)
(* opposite converter.                                                        *)

Pending == [ok |-> FALSE, err |-> "pending", text |-> <<>>]

\* no token list is being scanned
NoScan == [tokens |-> <<>>, s |-> Scan0, iterations |-> 0]

Init ==
  /\ req \in Requests
  /\ lang = req.lang
  /\ query = Show(req)
  /\ pc = "call"
  /\ hops = 0
  /\ ir = NoIR
  /\ out = Pending
  /\ scan = NoScan

\* a handler's answer becomes the state
Answer(r) ==
  /\ out' = r.out
  /\ ir' = r.ir
  /\ pc' = "done"
  /\ UNCHANGED <<req, lang, query, hops, scan>>

Calling(l) == pc = "call" /\ lang = l

\* MongoToSql.convert strips the query and routes it
MongoFind == Calling("mongo") /\ Handler(Strip(query, Ws)) = "find" /\ Answer(HandleFind(Strip(query, Ws)))

MongoUpdate ==
  Calling("mongo") /\ Handler(Strip(query, Ws)) = "update" /\ Answer(HandleUpdate(Strip(query, Ws)))

MongoDelete ==
  Calling("mongo") /\ Handler(Strip(query, Ws)) = "delete" /\ Answer(HandleDelete(Strip(query, Ws)))

\* the column order of an insert is any order of the set of its fields
MongoInsert ==
  /\ Calling("mongo") /\ Handler(Strip(query, Ws)) = "insert"
  /\ \E r \in HandleInsert(Strip(query, Ws)) : Answer(r)

MongoAggregate ==
  /\ Calling("mongo") /\ Handler(Strip(query, Ws)) = "aggregate"
  /\ Answer(HandleAggregate(Strip(query, Ws)))

MongoUnsupported ==
  Calling("mongo") /\ Handler(Strip(query, Ws)) = "none" /\ Answer(Done(Err("ValueError"), NoIR))

\* sql_to_mongo: anything but exactly one statement is refused
SqlReject == Calling("sql") /\ SqlHandler(query) = "reject" /\ Answer(Done(Err("SyntaxError"), NoIR))

SqlSelect ==
  /\ Calling("sql") /\ SqlHandler(query) = "SELECT"
  /\ Answer(HandleSelect(SqlParse(query)[1], query))

SqlInsert == Calling("sql") /\ SqlHandler(query) = "INSERT" /\ Answer(SqlHandleInsert(query))

SqlUpdate == Calling("sql") /\ SqlHandler(query) = "UPDATE" /\ Answer(SqlHandleUpdate(query))

SqlDelete == Calling("sql") /\ SqlHandler(query) = "DELETE" /\ Answer(SqlHandleDelete(query))

SqlUnsupported ==
  /\ Calling("sql") /\ SqlHandler(query) = "unsupported"
  /\ Answer(Done(Err("NotImplementedError"), NoIR))

\* the caller hands a returned command to the opposite converter
Chain ==
  /\ pc = "done" /\ out.ok /\ hops < MaxHops
  /\ lang' = (IF lang = "sql" THEN "mongo" ELSE "sql")
  /\ query' = out.text
  /\ pc' = "call"
  /\ hops' = hops + 1
  /\ UNCHANGED <<req, ir, out, scan>>

Next ==
  \/ MongoFind \/ MongoInsert \/ MongoUpdate \/ MongoDelete \/ MongoAggregate
  \/ MongoUnsupported
  \/ SqlReject \/ SqlSelect \/ SqlInsert \/ SqlUpdate \/ SqlDelete \/ SqlUnsupported
  \/ Chain

Spec == Init /\ [][Next]_vars

----------------------------------------------------------------------------
(* The loop of parse_select_statement, one iteration a step, over every      *)
(* token list of a bounded length                                            *)

MaxTokens == 3     \* the longest token list

\* one token of every kind the loop tells apart, and one it passes over
ScanTokens ==
  {Tok("DML", <<"SELECT">>), Tok("Keyword", <<"FROM">>), Tok("Keyword", <<"WHERE">>),
   Tok("Keyword", <<"ORDER">>), Tok("Keyword", <<"GROUP">>), Tok("Keyword", <<"BY">>),
   Tok("Keyword", <<"LIMIT">>), Tok("Where", <<"WHERE">>),
   Tok("Identifier", <<"c">>)}

ScanInit ==
  /\ scan = NoScan
  /\ req = Request("sql", <<>>, FALSE)
  /\ lang = "sql"
  /\ query = <<>>
  /\ pc = "tokens"
  /\ hops = 0
  /\ ir = NoIR
  /\ out = Pending

\* the statement handed to parse_select_statement gets one more token
ScanToken ==
  /\ pc = "tokens" /\ Len(scan.tokens) < MaxTokens
  /\ \E t \in ScanTokens : scan' = [scan EXCEPT !.tokens = Append(@, t)]
  /\ UNCHANGED <<req, lang, query, pc, hops, ir, out>>

\* parse_select_statement is entered; its locals are as Scan0 sets them
ScanEnter ==
  /\ pc = "tokens"
  /\ pc' = "scan"
  /\ UNCHANGED <<req, lang, query, hops, ir, out, scan>>

\* while i < len(tokens): one pass through the loop body.  The count of the
\* passes is bookkeeping; it is followed one past the length of the list.
ScanIteration ==
  /\ pc = "scan" /\ scan.s.i <= Len(scan.tokens) /\ scan.iterations <= Len(scan.tokens)
  /\ \E u \in {ScanStep(scan.tokens, scan.s)} :
       scan' = [scan EXCEPT !.s = u, !.iterations = @ + 1]
  /\ UNCHANGED <<req, lang, query, pc, hops, ir, out>>

\* the loop condition fails: parse_select_statement returns
ScanReturn ==
  /\ pc = "scan" /\ scan.s.i > Len(scan.tokens)
  /\ pc' = "returned"
  /\ UNCHANGED <<req, lang, query, hops, ir, out, scan>>

ScanNext == ScanToken \/ ScanEnter \/ ScanIteration \/ ScanReturn

\* the loop is sequential code: a pass that can be taken is taken
ScanSpec == ScanInit /\ [][ScanNext]_vars /\ WF_vars(ScanNext)

----------------------------------------------------------------------------
(* The properties of the translator *)

\* the one statement of the request
Stmt == req.stmts[1]

\* the first conversion of a one-statement request in language l has answered
First(l) == req.lang = l /\ Len(req.stmts) = 1 /\ hops = 0 /\ pc = "done"

\* the answer to such a request has been converted back: query is the text in
\* between, out and ir are what the opposite converter made of it
Back(l) == req.lang = l /\ Len(req.stmts) = 1 /\ hops = 1 /\ pc = "done"

EndsWith(t, s) == Len(t) >= Len(s) /\ SubSeq(t, Len(t) - Len(s) + 1, Len(t)) = s

\* the filter holds the condition c under its field
Represents(filter, c) ==
  /\ IsDict(filter) /\ HasKey(filter.v, c.f)
  /\ LET v == Get(filter.v, c.f)
     IN CASE c.op = <<"=">> -> ~IsDict(v)
          [] c.op = <<">">> -> IsDict(v) /\ HasKey(v.v, Op("gt"))
          [] c.op = <<"<">> -> IsDict(v) /\ HasKey(v.v, Op("lt"))

IdEquality == Cond(<<"_id">>, <<"=">>, <<"5">>)
WriteVerbs == {"updateOne", "updateMany", "deleteOne", "deleteMany"}

\* C1: a find with limit L >= 0 and skip S >= 0, rendered to SQL and parsed
\* back, gives exactly L as the limit and exactly S as the skip.
LimitSkipRoundTrip ==
  Back("mongo") /\ Stmt.verb = "find" /\ Stmt.limit >= 0 /\ Stmt.skip >= 0
    => out.ok /\ ir.limit = VInt(Stmt.limit) /\ ir.skip = VInt(Stmt.skip)

\* C2: a plain SELECT (columns or *, flat AND of comparisons, optional LIMIT)
\* translated to Mongo and back succeeds and gives a SELECT on the same table
\* with the same conditions, columns and limit.
SelectRoundTrip ==
  Back("sql") /\ Stmt.verb = "SELECT" /\ Stmt.conn = "AND" /\ Stmt.skip < 0
    => /\ out.ok
       /\ ir.op = "find" /\ ir.collection = Stmt.coll
       /\ \A k \in 1..Len(Stmt.where) : Represents(ir.find, Stmt.where[k])
       /\ Stmt.cols # <<<<"*">>>> => IsDict(ir.projection) /\ Keys(ir.projection.v) = Stmt.cols
       /\ Stmt.limit >= 0 => ir.limit = VInt(Stmt.limit)

\* C3: {f: {$in: []}} renders to the always-false predicate and {f: {$nin: []}}
\* to the always-true one wherever the comparison sits in the filter of a
\* find, an update or a delete.
EmptyListPredicates ==
  First("mongo") /\ Stmt.verb \in WriteVerbs \cup {"find"}
    => /\ Stmt.filter \in Placed(D1(<<"f">>, D1(Op("in"), VList(<<>>))))
            => out.ok /\ Contains(out.text, <<"FALSE">>)
       /\ Stmt.filter \in Placed(D1(<<"f">>, D1(Op("nin"), VList(<<>>))))
            => out.ok /\ Contains(out.text, <<"TRUE">>)

\* C4: a string with a single quote is rendered single-quoted with the quote
\* doubled, and the SQL side decodes that literal to the original string.
QuoteRoundTrip ==
  Back("mongo") /\ Stmt.verb = "find" /\ Stmt.filter = D1(<<"n">>, OBrien)
    => /\ Contains(query, <<"n", " ", "=", " ">> \o QuotedOB)
       /\ out.ok /\ IsDict(ir.find) /\ HasKey(ir.find.v, <<"n">>)
       /\ Get(ir.find.v, <<"n">>) = OBrien

\* C5: the SQL of a Mongo update or delete ends with LIMIT 1 exactly when the
\* call is updateOne or deleteOne, whatever its arguments contain.
LimitOneIffOneVariant ==
  First("mongo") /\ Stmt.verb \in WriteVerbs /\ out.ok
    => (EndsWith(out.text, <<" ", "LIMIT", " ", "1", ";">>)
          <=> Stmt.verb \in {"updateOne", "deleteOne"})

\* C6: a SQL DELETE becomes deleteOne only when its WHERE clause is exactly one
\* equality on _id; with any other filter it becomes deleteMany.
DeleteOneOnlyForIdEquality ==
  First("sql") /\ Stmt.verb = "DELETE" /\ (Stmt.conn = "AND" \/ Len(Stmt.where) <= 1)
    => /\ out.ok /\ ir.call \in {"deleteOne", "deleteMany"}
       /\ Stmt.where # <<IdEquality>> => ir.call = "deleteMany"

\* C7: a statement with OR in its WHERE clause is refused with the error of an
\* unsupported operation; no command is returned for it.
OrRejected ==
  First("sql") /\ Stmt.verb \in {"SELECT", "DELETE"} /\ Stmt.conn = "OR" /\ Len(Stmt.where) >= 2
    => ~out.ok /\ out.err = "NotImplementedError"

\* C8: the filter made of a flat AND chain holds every one of its conjuncts,
\* also when two of them constrain the same field.
FlatAndChain ==
  First("sql") /\ Stmt.verb \in {"SELECT", "DELETE"} /\ Stmt.conn = "AND"
    => out.ok /\ \A k \in 1..Len(Stmt.where) : Represents(ir.find, Stmt.where[k])

\* C9: a text of no statement or of more than one is refused with SyntaxError
\* and no command; a handler is reached only with exactly one statement.
OneStatementOnly ==
  req.lang = "sql" /\ hops = 0 /\ pc = "done"
    => /\ Len(req.stmts) # 1 => out = Err("SyntaxError") /\ ir = NoIR
       /\ (out.ok \/ ir # NoIR) => Len(req.stmts) = 1

\* a text of two statements has been refused
TwoStatementsRefused ==
  /\ req.lang = "sql" /\ hops = 0 /\ pc = "done"
  /\ Len(req.stmts) = 2 /\ out = Err("SyntaxError")

\* the value an INSERT literal stands for
RowValue(lit) == IF lit = <<"1">> THEN VInt(1) ELSE IF lit = <<"2">> THEN VInt(2) ELSE VStr(<<"x", ",", "y">>)

\* C10: an INSERT with a row whose length differs from the column list fails
\* with ValueError; otherwise one row gives insertOne, two or more give
\* insertMany, one document per row in row order.
InsertRows ==
  First("sql") /\ Stmt.verb = "INSERT"
    => IF \E k \in 1..Len(Stmt.rows) : Len(Stmt.rows[k]) # Len(Stmt.cols)
         THEN out = Err("ValueError")
       ELSE /\ out.ok
            /\ ir.call = (IF Len(Stmt.rows) = 1 THEN "insertOne" ELSE "insertMany")
            /\ Len(ir.docs) = Len(Stmt.rows)
            /\ \A k \in 1..Len(Stmt.rows) :
                 ir.docs[k] = VDict([j \in 1..Len(Stmt.cols) |->
                                       Item(Stmt.cols[j], RowValue(Stmt.rows[k][j]))])

\* the documents of an insert request
InsertedDocs == IF IsDict(Stmt.filter) THEN <<Stmt.filter>> ELSE Stmt.filter.v

RECURSIVE FirstSeen(_, _)
\* the keys of a list in the order of their first occurrence
FirstSeen(keys, acc) ==
  IF Len(keys) = 0 THEN acc
  ELSE FirstSeen(Tail(keys),
                 IF \E i \in 1..Len(acc) : acc[i] = Head(keys) THEN acc ELSE Append(acc, Head(keys)))

\* the keys of the inserted documents: document order, then key order
InsertedKeys == FirstSeen(Cat([k \in 1..Len(InsertedDocs) |-> Keys(InsertedDocs[k].v)]), <<>>)

\* a literal as the literal rule writes it: a number bare, a string in single
\* quotes with each quote doubled, a null as NULL
SqlLiteral(v) ==
  CASE v.t = "null" -> <<"NULL">>
    [] v.t = "int" -> Str(v.v)
    [] v.t = "str" ->
         <<"'">> \o Cat([i \in 1..Len(v.v) |-> IF v.v[i] = "'" THEN <<"'", "'">> ELSE <<v.v[i]>>])
         \o <<"'">>

\* the row of a document under the columns cols: NULL for a missing field
LiteralRow(doc, cols) ==
  <<"(">>
  \o Join([i \in 1..Len(cols) |->
             IF HasKey(doc.v, cols[i]) THEN SqlLiteral(Get(doc.v, cols[i])) ELSE <<"NULL">>],
          <<",", " ">>)
  \o <<")">>

InsertVerbs == {"insertOne", "insertMany"}

\* C11: the INSERT of an insertOne / insertMany lists the union of the
\* documents' keys in first-seen order (document order, then key order), every
\* row gives its values in that order, and a field a document lacks is NULL
\* in its row.
InsertColumnsFirstSeen ==
  First("mongo") /\ Stmt.verb \in InsertVerbs /\ Len(InsertedDocs) > 0
    /\ (\A k \in 1..Len(InsertedDocs) : \A j \in 1..Len(InsertedDocs[k].v) :
          InsertedDocs[k].v[j].v.t = "int")
    => /\ out.ok
       /\ out.text = <<"INSERT", " ", "INTO", " ">> \o Stmt.coll \o <<" ", "(">>
                     \o Join(InsertedKeys, <<",", " ">>) \o <<")", " ", "VALUES", " ">>
                     \o Join([k \in 1..Len(InsertedDocs) |-> LiteralRow(InsertedDocs[k], InsertedKeys)],
                             <<",", " ">>)
                     \o <<";">>

\* C12: wherever a literal is rendered into SQL (a value of an INSERT, a value
\* of an UPDATE's SET, a WHERE equality, a member of an IN list) a number is
\* bare, a string is single-quoted with its quotes doubled, and a null is the
\* keyword NULL (IS NULL in a predicate), never a quoted string.
LiteralsBySqlRule ==
  /\ First("mongo") /\ Stmt.verb = "insertOne" /\ Len(Stmt.filter.v) = 1
       => out.ok /\ Contains(out.text, <<"VALUES", " ">> \o LiteralRow(Stmt.filter, Keys(Stmt.filter.v)))
  /\ First("mongo") /\ Stmt.verb \in {"updateOne", "updateMany"} /\ Stmt.filter = VDict(<<>>)
       => out.ok
          /\ LET set == IF HasKey(Stmt.update.v, Op("set")) THEN Get(Stmt.update.v, Op("set"))
                        ELSE Stmt.update
             IN Contains(out.text, <<"SET", " ">> \o set.v[1].k \o <<" ", "=", " ">>
                                   \o SqlLiteral(set.v[1].v))
  /\ First("mongo") /\ Stmt.verb = "find" /\ Stmt.filter \in {D1(<<"f">>, v) : v \in Scalars}
       => out.ok
          /\ Contains(out.text, <<"WHERE", " ", "f", " ">>
                                \o (IF Stmt.filter.v[1].v = VNull THEN <<"IS", " ", "NULL">>
                                    ELSE <<"=", " ">> \o SqlLiteral(Stmt.filter.v[1].v)))
  /\ First("mongo") /\ Stmt.verb = "find"
       /\ Stmt.filter = D1(<<"f">>, D1(Op("in"), VList(<<VInt(1), VStr(<<"x">>), VNull>>)))
       => out.ok /\ Contains(out.text, <<"f", " ", "IN", " ", "(", "1", ",", " ", "'", "x", "'",
                                         ",", " ", "NULL", ")">>)

LeafSql(f) ==
  CASE f = Leaf1 -> <<"f", " ", "=", " ", "1">>
    [] f = Leaf2 -> <<"g", " ", ">", " ", "2">>
    [] f = Leaf3 -> <<"h", " ", "=", " ", "'", "x", "'">>

RECURSIVE TreeSql(_)
\* a $and / $or node: its children, each in parentheses, joined by the word
TreeSql(f) ==
  IF f \in {Leaf1, Leaf2, Leaf3} THEN LeafSql(f)
  ELSE LET word == IF f.v[1].k = Op("and") THEN "AND" ELSE "OR"
           subs == f.v[1].v.v
       IN Join([i \in 1..Len(subs) |-> <<"(">> \o TreeSql(subs[i]) \o <<")">>],
               <<" ", word, " ">>)

RECURSIVE NoEmptyNode(_)
\* every $and / $or node of the tree has a child, and no child is empty
NoEmptyNode(f) ==
  f \in {Leaf1, Leaf2, Leaf3}
  \/ (Len(f.v) = 1 /\ Len(f.v[1].v.v) > 0 /\ \A i \in 1..Len(f.v[1].v.v) : NoEmptyNode(f.v[1].v.v[i]))

\* C19: every $and / $or node, at any depth, renders as its children's
\* conditions, each in parentheses, joined by AND / OR in their order, and
\* no filter tree renders an empty pair of parentheses.
BooleanGroupsWellFormed ==
  First("mongo") /\ Stmt.verb = "find" /\ Stmt.filter \in Trees
    => /\ out.ok
       /\ ~Contains(out.text, <<"(", ")">>)
       /\ NoEmptyNode(Stmt.filter)
            => out.text = <<"SELECT", " ", "*", " ", "FROM", " ">> \o Stmt.coll
                          \o <<" ", "WHERE", " ">> \o TreeSql(Stmt.filter) \o <<";">>

\* the comparison signs of the operator table
OpSign(o) ==
  CASE o = "gt" -> <<">">> [] o = "gte" -> <<">", "=">> [] o = "lt" -> <<"<">>
    [] o = "lte" -> <<"<", "=">> [] o = "eq" -> <<"=">> [] o = "ne" -> <<"<", ">">>

\* one clause of the operator table; e is an item of an operator object
TableClause(e) ==
  IF e.k = Op("exists")
    THEN (IF e.v.v THEN <<"f", " ", "IS", " ", "NOT", " ", "NULL">> ELSE <<"f", " ", "IS", " ", "NULL">>)
  ELSE IF e.v = VNull
    THEN (IF e.k = Op("eq") THEN <<"f", " ", "IS", " ", "NULL">>
          ELSE <<"f", " ", "IS", " ", "NOT", " ", "NULL">>)
  ELSE <<"f", " ">> \o OpSign(e.k[2]) \o <<" ">> \o SqlLiteral(e.v)

\* the comparisons the operator table speaks of: no list, and a null only
\* under $eq, $ne or bare
Tabled ==
  {c \in Comparisons :
     IF IsDict(c.v[1].v)
     THEN \A j \in 1..Len(c.v[1].v.v) :
            /\ c.v[1].v.v[j].k # Op("in")
            /\ c.v[1].v.v[j].v = VNull => c.v[1].v.v[j].k \in {Op("eq"), Op("ne")}
     ELSE TRUE}

\* C20: $gt, $gte, $lt, $lte, $eq, $ne on a non-null scalar render as >, >=,
\* <, <=, = and <>, a bare value as =; a null under $eq or bare renders IS
\* NULL and under $ne IS NOT NULL; $exists renders IS NOT NULL / IS NULL; and
\* several operators on one field are all rendered, joined by AND.
OperatorTable ==
  First("mongo") /\ Stmt.verb = "find" /\ Stmt.filter \in Tabled
    => /\ out.ok
       /\ out.text = <<"SELECT", " ", "*", " ", "FROM", " ">> \o Stmt.coll \o <<" ", "WHERE", " ">>
                     \o (IF IsDict(Stmt.filter.v[1].v)
                         THEN Join([j \in 1..Len(Stmt.filter.v[1].v.v) |->
                                      TableClause(Stmt.filter.v[1].v.v[j])], <<" ", "AND", " ">>)
                         ELSE TableClause(Item(Op("eq"), Stmt.filter.v[1].v)))
                     \o <<";">>

\* two operators on one field have been rendered
TwoOperatorsRendered ==
  /\ First("mongo") /\ Stmt.verb = "find" /\ out.ok
  /\ Stmt.filter = D1(<<"f">>, D2(Op("gt"), VInt(1), Op("lt"), VInt(9)))
  /\ Contains(out.text, <<" ", "AND", " ">>)

\* the pipeline of an aggregate request
Pipeline == Stmt.filter.v

\* the pipeline has a stage of this kind
HasStage(stage) == \E k \in 1..Len(Pipeline) : Pipeline[k] = stage

\* pipelines made of $match, $project, $sort, $limit and $skip stages only
Foldable ==
  {p \in PlainPipelines :
     /\ Len(p) > 0
     /\ \A k \in 1..Len(p) : p[k] \in {MatchStage, ProjectStage, SortStage, LimitStage, SkipStage}}

\* C14: an aggregate pipeline without a $group stage whose first stage is
\* not $lookup is translated, and its stages are folded into a plain SELECT:
\* $match is the WHERE, $project the column list, $sort the ORDER BY, $limit
\* the LIMIT and $skip the OFFSET.
PlainPipelineFolded ==
  First("mongo") /\ Stmt.verb = "aggregate" /\ Pipeline \in Foldable
    => /\ out.ok
       /\ out.text = <<"SELECT", " ">> \o (IF HasStage(ProjectStage) THEN <<"f">> ELSE <<"*">>)
                     \o <<" ", "FROM", " ">> \o Stmt.coll
                     \o (IF HasStage(MatchStage) THEN <<" ", "WHERE", " ", "f", " ", "=", " ", "1">>
                         ELSE <<>>)
                     \o (IF HasStage(SortStage) THEN <<" ", "ORDER", " ", "BY", " ", "f", " ", "ASC">>
                         ELSE <<>>)
                     \o (IF HasStage(LimitStage) THEN <<" ", "LIMIT", " ", "2">>
                         ELSE IF HasStage(SkipStage) THEN <<" ", "LIMIT", " ">> \o BigintNumeral
                         ELSE <<>>)
                     \o (IF HasStage(SkipStage) THEN <<" ", "OFFSET", " ", "1">> ELSE <<>>)
                     \o <<";">>

\* the _id of the $group stage of the request, null when the stage has none
GroupId ==
  LET k == CHOOSE k \in 1..Len(Pipeline) : HasKey(Pipeline[k].v, Op("group"))
      grp == Get(Pipeline[k].v, Op("group"))
  IN IF HasKey(grp.v, <<"_id">>) THEN Get(grp.v, <<"_id">>) ELSE VNull

\* C15: a pipeline with a $group stage whose _id is a non-empty object is
\* rendered SELECT keys, COUNT(*) ... GROUP BY keys, the keys being the field
\* names of _id in order, with every $match, $sort and $limit stage of the
\* pipeline, wherever it stands, as the WHERE, ORDER BY and LIMIT; a $group
\* whose _id is empty or no object is refused with a validation error.
GroupPipelineRendered ==
  First("mongo") /\ Stmt.verb = "aggregate" /\ Pipeline \in GroupPipelines
    => IF IsDict(GroupId) /\ Len(GroupId.v) > 0
       THEN /\ out.ok
            /\ out.text = <<"SELECT", " ">> \o Join(Keys(GroupId.v), <<",", " ">>)
                          \o <<",", " ", "COUNT(*)", " ", "FROM", " ">> \o Stmt.coll
                          \o (IF HasStage(MatchStage)
                              THEN <<" ", "WHERE", " ", "f", " ", "=", " ", "1">> ELSE <<>>)
                          \o <<" ", "GROUP", " ", "BY", " ">> \o Join(Keys(GroupId.v), <<",", " ">>)
                          \o (IF HasStage(SortStage)
                              THEN <<" ", "ORDER", " ", "BY", " ", "f", " ", "ASC">> ELSE <<>>)
                          \o (IF HasStage(LimitStage) THEN <<" ", "LIMIT", " ", "2">> ELSE <<>>)
                          \o <<";">>
       ELSE ~out.ok /\ out.err = "ValueError"

\* C16: a SELECT with GROUP BY becomes an aggregate whose pipeline has a
\* $group stage with an _id that maps every group key to its field reference
\* and a count accumulator, and has the statement's WHERE, ORDER BY and
\* LIMIT, when present, as $match, $sort and $limit stages.
GroupByBecomesGroupStage ==
  First("sql") /\ Stmt.verb = "SELECT" /\ Len(Stmt.group) > 0
    => /\ out.ok
       /\ Contains(out.text, <<".", "aggregate", "(">>)
       /\ Contains(out.text, <<"$", "group">>) /\ Contains(out.text, <<"_id">>)
       /\ Contains(out.text, <<"$", "sum">>)
       /\ \A i \in 1..Len(Stmt.group) :
            Contains(out.text, Stmt.group[i] \o <<":", " ", "\"", "$">> \o Stmt.group[i] \o <<"\"">>)
       /\ Len(Stmt.where) > 0 => Contains(out.text, <<"$", "match">>)
       /\ Len(Stmt.order) > 0 => Contains(out.text, <<"$", "sort">>)
       /\ Stmt.limit >= 0 => Contains(out.text, <<"$", "limit">>)

\* the request is a SELECT with a JOIN
JoinRequest == Stmt.verb = "SELECT" /\ Stmt.join.has

\* the JOIN is written as the join pattern reads it: FROM table [alias] JOIN
\* table [alias] ON, where a written-out INNER can only stand in the place
\* of the first alias
PatternJoin == JoinRequest /\ ~(Stmt.join.inner /\ Len(Stmt.join.alias1) > 0)

\* the name the joined table goes by
JoinedName == Named(Stmt, <<"d">>, Stmt.join.alias2)

\* the key of a stage
StageKey(stage) == stage.v[1].k

\* the columns written left and right of the = of the ON clause
OnLeft == IF Stmt.join.flipped THEN <<"g">> ELSE <<"f">>
OnRight == IF Stmt.join.flipped THEN <<"f">> ELSE <<"g">>

JoinRoundTrip ==
  Back("sql") /\ PatternJoin /\ Len(Stmt.where) > 0
    => /\ out.ok
       /\ Contains(out.text, <<"FROM", " ">> \o Stmt.coll \o <<" ", "JOIN", " ", "d", " ", "ON", " ">>
                             \o Stmt.coll \o <<".", "f", " ", "=", " ", "d", ".", "g">>)
       /\ Contains(out.text, <<" ", "WHERE", " ", "f", " ", "=", " ">>)

\* the LIKE pattern that stands for the $regex pattern p: no wildcard where p
\* is anchored
LikeFor(p) ==
  (IF Head(p) = "^" THEN <<>> ELSE <<"%">>)
  \o SelectSeq(p, LAMBDA x : x \notin {"^", "$"})
  \o (IF p[Len(p)] = "$" THEN <<>> ELSE <<"%">>)

\* C21: a $regex pattern that starts with ^ renders LIKE 'rest%', one that
\* ends with $ renders LIKE '%rest', any other LIKE '%p%'; the anchor itself
\* is never part of the LIKE pattern, also when the pattern has both anchors.
AnchorsBecomeWildcards ==
  First("mongo") /\ Stmt.verb = "find" /\ Stmt.filter \in Regexes
    => /\ out.ok
       /\ ~Contains(out.text, <<"^">>) /\ ~Contains(out.text, <<"$">>)
       /\ Head(Stmt.filter.v[1].v.v[1].v.v) # "^" \/ Stmt.filter.v[1].v.v[1].v.v[Len(Stmt.filter.v[1].v.v[1].v.v)] # "$"
            => out.text = <<"SELECT", " ", "*", " ", "FROM", " ">> \o Stmt.coll
                          \o <<" ", "WHERE", " ", "f", " ", "LIKE", " ", "'">>
                          \o LikeFor(Stmt.filter.v[1].v.v[1].v.v) \o <<"'", ";">>

\* C22: a find whose filter is written in the relaxed dialect (keys without
\* quotes, operators without $ or with $ and no quotes, a key that only ends in
\* an operator name, nin) is translated, and the filter decoded is the filter
\* that was meant.
RelaxedKeysDecoded ==
  First("mongo") /\ Stmt \in Relaxed => out.ok /\ ir.find = Stmt.filter

\* C23: the literal of a WHERE triple is typed by _parse_sql_value's rule under
\* every comparison operator, = included: f = 30 stores the integer 30, as
\* f > 30 does.
WhereLiteralTyped ==
  First("sql") /\ Stmt.verb = "SELECT" /\ Stmt.where \in TypedWheres
    => /\ out.ok /\ IsDict(ir.find) /\ HasKey(ir.find.v, <<"f">>)
       /\ IF Stmt.where[1].op = <<"=">>
          THEN Get(ir.find.v, <<"f">>) = ParseSqlValue(Stmt.where[1].lit)
          ELSE /\ IsDict(Get(ir.find.v, <<"f">>))
               /\ Get(ir.find.v, <<"f">>).v[1].v = ParseSqlValue(Stmt.where[1].lit)

\* { c1: 1, c2: 1 }: the columns in their SELECT order, each mapped to 1
ProjectionOf(cols) ==
  <<"{", " ">> \o Join([i \in 1..Len(cols) |-> cols[i] \o <<":", " ", "1">>], <<",", " ">>)
  \o <<" ", "}">>

\* db.<table>.find(<filter>[, <projection>]), up to the closing parenthesis
FindCallOf(s, filter) ==
  <<"db", ".">> \o s.coll \o <<".", "find", "(">> \o FormatJson(filter)
  \o (IF s.cols = <<<<"*">>>> THEN <<>> ELSE <<",", " ">> \o ProjectionOf(s.cols))
  \o <<")">>

\* the calls that may be chained to the find of s: .sort() only for an ORDER
\* BY, .limit() only for a LIMIT
ChainsOf(s) ==
  {a \o b : a \in {<<>>} \cup (IF Len(s.order) > 0
                                THEN {<<".", "sort", "(", "{", " ">> \o s.order
                                      \o <<":", " ", "1", " ", "}", ")">>}
                                ELSE {}),
            b \in {<<>>} \cup (IF s.limit >= 0
                                THEN {<<".", "limit", "(">> \o Str(s.limit) \o <<")">>}
                                ELSE {})}

TruncatedLiteralRepaired ==
  First("mongo") /\ Stmt \in Truncated => out.ok /\ ir.find = Stmt.filter

\* the condition one top-level key of a filter stands for
KeyCondition(it) ==
  IF it.k \in {Op("and"), Op("or")} THEN BuildWhereSql(VDict(<<it>>))
  ELSE BuildBasicConditions(<<it>>)

\* C26: every top-level key of the filter of a find contributes its condition
\* to the WHERE clause: a field condition beside a $and or $or key is rendered
\* together with the boolean group.
EveryKeyContributes ==
  First("mongo") /\ Stmt.verb = "find" /\ Stmt.filter \in BesideGroups
    => /\ out.ok
       /\ \A i \in 1..Len(Stmt.filter.v) : Contains(out.text, KeyCondition(Stmt.filter.v[i]))

\* C27: the $lookup stage of a JOIN has the column of the FROM table as its
\* localField and the column of the joined table as its foreignField,
\* whichever side of the ON equality each is written on.
LookupFieldsByTable ==
  First("sql") /\ PatternJoin
    => /\ out.ok
       /\ Get(ir.pipeline.v[1].v[1].v.v, <<"localField">>) = VStr(<<"f">>)
       /\ Get(ir.pipeline.v[1].v[1].v.v, <<"foreignField">>) = VStr(<<"g">>)

\* C28: every call chained to a find, in whatever order the calls are written,
\* shows in the SQL: .sort() as ORDER BY, .limit(n) as LIMIT n, .skip(n) as
\* OFFSET n.
ChainedCallsReflected ==
  First("mongo") /\ Stmt \in Chained
    => /\ out.ok
       /\ "sort" \in Calls(Stmt.chain)
            => Contains(out.text, <<" ", "ORDER", " ", "BY", " ">> \o Stmt.order \o <<" ", "ASC">>)
       /\ "limit" \in Calls(Stmt.chain)
            => Contains(out.text, <<" ", "LIMIT", " ">> \o Str(Stmt.limit))
       /\ "skip" \in Calls(Stmt.chain)
            => Contains(out.text, <<" ", "OFFSET", " ">> \o Str(Stmt.skip))

\* C29: a SELECT whose WHERE has a conjunct that is no supported triple (an
\* operator other than =, >, <, >=, <=, or fewer than three whitespace-separated
\* tokens) fails with an error: no command is returned.
UnsupportedConjunctFails ==
  First("sql") /\ Stmt.verb = "SELECT" /\ Stmt.where \in UnsupportedWheres => ~out.ok

====
